---- MODULE Spec2Model ----
(***************************************************************************)
(* The task-stream coordination layer of the A2A server runtime:           *)
(*   AgentTaskStream      (producer side, server/agent/stream.ts)          *)
(*   InMemoryQueue        (server/providers/queue/in_memory.ts)            *)
(*   TaskStreamConsumer   (server/server/taskStreamConsumer.ts)            *)
(*   TaskStreamManager    (server/server/taskStreamConsumer.ts)            *)
(*   A2AServer handlers   (server/server/server.ts)                        *)
(* Every async function is cut into its synchronous runs: one action is    *)
(* the code between two suspension points (await / yield).                 *)
(***************************************************************************)
EXTENDS Integers, Sequences, FiniteSets, TLC

\* ---------------------------------------------------------------- bounds
MaxCalls == 3        \* producer calls the agent callback issues on one stream
MaxPending == 3      \* producer calls whose promise has not resolved yet
NumTappers == 2      \* late subscribers of one consumer
NumReqs == 3         \* requests the server handles
MaxSrvCalls == 1     \* producer calls the agent callback of one request issues
MaxMgrOps == 3       \* calls on a TaskStreamManager
MaxRefs == 2         \* ids in the referenceTaskIds of one message
MaxCxCalls == 3      \* setOrUpdateTask calls on one context
MaxArtifacts == 2    \* artifacts in the params of one call
MaxExitCalls == 1    \* producer calls on the stream whose consumer may end early
MaxQueueOps == 6     \* calls on one InMemoryQueue
TickMs == 500        \* milliseconds between two readings of the clock
MaxRpcCalls == 2      \* handleRequest calls on one JSONRPCServer
MaxTicks == 4        \* readings of the clock

\* ---------------------------------------------------------------- values
\* Every optional value is a record with a kind, so that it compares with these.
Undefined == [kind |-> "undefined"]     \* JavaScript undefined
Pending == [kind |-> "pending"]         \* a promise nobody has resolved yet
NoState == "none"                       \* the state field of an event without status

END_OF_STREAM_EVENT == "end-of-stream"

FinalStates == {"completed", "failed", "canceled", "rejected"}
PendingStates == {"input-required", "auth-required"}

isFinalTaskState_NoRejected(state) == state \in {"completed", "failed", "canceled"}
isFinalTaskState_WithPending(state) == state \in FinalStates \cup PendingStates
isFinalTaskState(state) == state \in FinalStates

isPendingTaskState(state) == state \in PendingStates

isEndOfStream_Never(event) == FALSE
isEndOfStream(event) == event.kind = END_OF_STREAM_EVENT

\* The three events an AgentTaskStream enqueues.  call is the index of the
\* producer call that built the event (the identity of the event object).
StatusUpdate(task, call) ==
  [kind |-> "status-update", taskId |-> task.id, call |-> call,
   state |-> task.status.state, final |-> isFinalTaskState(task.status.state)]

ArtifactUpdate(task, call) ==
  [kind |-> "artifact-update", taskId |-> task.id, call |-> call,
   state |-> NoState, final |-> FALSE]

EndOfStream(task, call) ==
  [kind |-> END_OF_STREAM_EVENT, taskId |-> task.id, call |-> call,
   state |-> NoState, final |-> FALSE]

\* ---------------------------------------------------------------- InMemoryQueue
\* items: buffered events; pending: the dequeue promises waiting for an item
\* (named by their owner); isClosed.  An operation returns the new queue and,
\* in woke, the promises it resolved: a sequence of <<owner, value>>.
NewQueue == [items |-> <<>>, pending |-> <<>>, isClosed |-> FALSE]

RECURSIVE resolvePendingPromises(_, _)
resolvePendingPromises(q, woke) ==
  IF Len(q.pending) > 0 /\ Len(q.items) > 0
  THEN resolvePendingPromises(
         [q EXCEPT !.pending = Tail(@), !.items = Tail(@)],
         Append(woke, <<Head(q.pending), Head(q.items)>>))
  ELSE [q |-> q, woke |-> woke]

enqueue_NoWake(q, item) == [q |-> [q EXCEPT !.items = Append(@, item)], woke |-> <<>>]
enqueue(q, item) ==
  resolvePendingPromises([q EXCEPT !.items = Append(@, item)], <<>>)

\* value: what the returned promise holds right after the call.
dequeue(q, owner) ==
  IF q.isClosed THEN [q |-> q, value |-> Undefined]
  ELSE IF Len(q.items) = 0
       THEN [q |-> [q EXCEPT !.pending = Append(@, owner)], value |-> Pending]
       ELSE [q |-> [q EXCEPT !.items = Tail(@)], value |-> Head(q.items)]

\* close(): the buffer is dropped and every pending dequeue promise resolves
\* to undefined.
close(q) ==
  [q |-> [q EXCEPT !.items = <<>>, !.pending = <<>>, !.isClosed = TRUE],
   woke |-> [i \in 1..Len(q.pending) |-> <<q.pending[i], Undefined>>]]

size(q) == Len(q.items)
isEmpty(q) == Len(q.items) = 0

\* ---------------------------------------------------------------- AgentExecutionContext
\* A task: id, contextId, status {state, message}, artifacts.  params: the
\* AgentTaskParams of a call, {artifacts, message}.
EmptyParams == [artifacts |-> <<>>, message |-> Undefined]

NoTaskId == ""      \* an absent (or empty, which is falsy too) task id
NoMessageId == ""   \* an absent message id

\* messageId: messageId || uuidv4();  ...(taskId ? { taskId } : {}).
_createMessage(cxId, messageParams, taskId, messageId) ==
  [kind |-> "message", parts |-> messageParams.parts, contextId |-> cxId, taskId |-> taskId,
   messageId |-> IF messageId # NoMessageId THEN messageId ELSE "uuid"]

\* context.message(messageParams, messageId): the second argument of
\* _createMessage is its taskId parameter.
message(cxId, messageParams, messageId) ==
  _createMessage(cxId, messageParams, messageId, NoMessageId)

_mergeArtifacts_Dedup(existing, newArtifacts) ==
  existing \o SelectSeq(newArtifacts, LAMBDA a : \A i \in 1..Len(existing) : existing[i] # a)
_mergeArtifacts(existing, newArtifacts) == existing \o newArtifacts

\* status = {...currentTask?.status, ...this._createStatus(taskState, statusMessage)}:
\* the spread of the new status sets message only when the call carries one.
_createOrUpdateTask(cxId, currentTask, taskParams, taskState, taskId) ==
  LET id == IF currentTask # Undefined THEN currentTask.id ELSE taskId
      artifacts == _mergeArtifacts(
                     IF currentTask # Undefined THEN currentTask.artifacts ELSE <<>>,
                     taskParams.artifacts)
      statusMessage == IF taskParams.message # Undefined
                       THEN _createMessage(cxId, taskParams.message, id, NoMessageId)
                       ELSE Undefined
      oldMessage == IF currentTask # Undefined THEN currentTask.status.message ELSE Undefined
      status == [state |-> taskState,
                 message |-> IF statusMessage # Undefined THEN statusMessage ELSE oldMessage]
  IN [kind |-> "task", id |-> id, contextId |-> cxId,
      artifacts |-> artifacts, status |-> status]

\* ---------------------------------------------------------------- AgentTaskStream
\* A stream s: closed, cxId and task (the context's id and currentTask), q (its
\* streamQueue), woke (the dequeue promises resolved during the running step)
\* and log (every event ever handed to q.enqueue, in order).
NewStream(cxId, task) ==
  [closed |-> FALSE, cxId |-> cxId, task |-> task, q |-> NewQueue,
   woke |-> <<>>, log |-> <<>>]

streamEnqueue(s, event) ==
  LET r == enqueue(s.q, event)
  IN [s EXCEPT !.q = r.q, !.woke = @ \o r.woke, !.log = Append(@, event)]

setOrUpdateTask(s, taskParams, taskState) ==
  [s EXCEPT !.task = _createOrUpdateTask(s.cxId, s.task, taskParams, taskState, Undefined)]

_terminateIfPendingOrFinalState(s, call) ==
  IF s.task # Undefined
     /\ (isPendingTaskState(s.task.status.state) \/ isFinalTaskState(s.task.status.state))
  THEN streamEnqueue([s EXCEPT !.closed = TRUE], EndOfStream(s.task, call))
  ELSE s

_sendTaskStatusUpdate(s, call) ==
  IF s.task # Undefined THEN streamEnqueue(s, StatusUpdate(s.task, call)) ELSE s

\* A suspended producer call: the continuation stage to run and the number of
\* microtask hops before it runs (await _sendTaskStatusUpdate(): 2, the inner
\* await of enqueue and the outer await; await streamQueue.enqueue(): 1).
Job(call, stage, hops) == [call |-> call, stage |-> stage, hops |-> hops]

StateOfOp(op) ==
  CASE op = "start" -> "working"
    [] op = "complete" -> "completed"
    [] op = "reject" -> "rejected"
    [] op = "authRequired" -> "auth-required"
    [] op = "inputRequired" -> "input-required"

Threw(s, why) == [s |-> s, outcome |-> "threw", error |-> why, job |-> Undefined]
Suspended(s, job) == [s |-> s, outcome |-> "suspended", error |-> "", job |-> job]
Returned(s) == [s |-> s, outcome |-> "returned", error |-> "", job |-> Undefined]

\* The synchronous run of writeArtifact up to its first await.
writeArtifact(s, call, sendTaskStatusUpdate) ==
  IF s.closed THEN Threw(s, "Task stream already terminated.")
  ELSE IF s.task = Undefined THEN Threw(s, "No task find to stream artifacts to")
  ELSE IF s.task.status.state # "working"
       THEN LET s1 == setOrUpdateTask(s, EmptyParams, "working")
            IN IF sendTaskStatusUpdate
               THEN Suspended(_sendTaskStatusUpdate(s1, call), Job(call, "artifact", 2))
               ELSE Suspended(streamEnqueue(s1, ArtifactUpdate(s.task, call)),
                              Job(call, "terminate", 1))
       ELSE Suspended(streamEnqueue(s, ArtifactUpdate(s.task, call)),
                      Job(call, "terminate", 1))

\* The synchronous run of start up to its first await (none when already working).
start(s, call, taskParams) ==
  IF s.closed THEN Threw(s, "Task stream already terminated.")
  ELSE IF s.task = Undefined THEN Threw(s, "No task find to stream artifacts to")
  ELSE IF s.task.status.state # "working"
       THEN Suspended(_sendTaskStatusUpdate(setOrUpdateTask(s, taskParams, "working"), call),
                      Job(call, "terminate", 2))
       ELSE Returned(_terminateIfPendingOrFinalState(s, call))

\* complete, reject, authRequired and inputRequired up to their await.
setState(s, call, op, taskParams) ==
  IF s.closed THEN Threw(s, "Task stream already terminated.")
  ELSE Suspended(_sendTaskStatusUpdate(setOrUpdateTask(s, taskParams, StateOfOp(op)), call),
                 Job(call, "terminate", 2))

ProducerOps == {"writeArtifact", "start", "complete", "reject", "authRequired", "inputRequired"}

producerCall(s, call, op, sendTaskStatusUpdate, taskParams) ==
  CASE op = "writeArtifact" -> writeArtifact(s, call, sendTaskStatusUpdate)
    [] op = "start" -> start(s, call, taskParams)
    [] OTHER -> setState(s, call, op, taskParams)

\* The run of a resumed producer call up to its next await or its return.
producerResume(s, job) ==
  IF job.stage = "artifact"
  THEN Suspended(streamEnqueue(s, ArtifactUpdate(s.task, job.call)),
                 Job(job.call, "terminate", 1))
  ELSE Returned(_terminateIfPendingOrFinalState(s, job.call))

\* ---------------------------------------------------------------- TaskStreamConsumer
Tappers == 1..NumTappers

\* A tapper of tap(): its local queue, whether tapper.resolve is set, and the
\* promise the generator awaits; pc is where the generator stands.
NewTapper == [pc |-> "idle", queue |-> <<>>, resolve |-> FALSE, promise |-> Undefined]

\* tapper.resolve(value): settles the promise it belongs to; settling a promise
\* that is already settled changes nothing.
resolveTapper(tapper, value) ==
  IF tapper.promise = Pending THEN [tapper EXCEPT !.promise = value] ELSE tapper

\* for (const tapper of this.tappers) of consume()'s loop body.
broadcast(tp, ts, event) ==
  [t \in DOMAIN tp |->
     IF t \in ts
     THEN IF tp[t].resolve
          THEN resolveTapper(tp[t], event)
          ELSE [tp[t] EXCEPT !.queue = Append(@, event)]
     ELSE tp[t]]

\* A consumer c: consuming, finished, pc of the consume() generator, promise
\* (what its await of dequeue() holds), cur (the event it stands on at yield).
NewConsumer ==
  [consuming |-> FALSE, finished |-> FALSE, pc |-> "idle",
   promise |-> Undefined, cur |-> Undefined]

\* The finally block of consume().
consumeFinally_NoNotify(c, q, tp, ts) ==
  [c |-> [c EXCEPT !.finished = TRUE, !.consuming = FALSE, !.pc = "done"],
   q |-> q, tap |-> tp, tset |-> {}]
consumeFinally(c, q, tp, ts) ==
  [c |-> [c EXCEPT !.finished = TRUE, !.consuming = FALSE, !.pc = "done"],
   q |-> q,
   tap |-> [t \in DOMAIN tp |->
              IF t \in ts /\ tp[t].resolve THEN resolveTapper(tp[t], Undefined) ELSE tp[t]],
   tset |-> {}]

\* The head of while (!this.abortSignal?.aborted) up to the await of dequeue().
consumeLoop(c, q, tp, ts, isAborted) ==
  IF isAborted THEN consumeFinally(c, q, tp, ts)
  ELSE LET r == dequeue(q, "consumer")
       IN [c |-> [c EXCEPT !.pc = "awaiting", !.promise = r.value],
           q |-> r.q, tap |-> tp, tset |-> ts]

\* The head of while (!this.finished) of tap() up to its yield, await or return;
\* inSet: whether the tapper is still in this.tappers afterwards.
tapLoop(tapper, finished, wasInSet) ==
  IF finished
  THEN [tapper |-> [tapper EXCEPT !.pc = "done"], inSet |-> FALSE, yields |-> Undefined]
  ELSE IF Len(tapper.queue) > 0
       THEN [tapper |-> [tapper EXCEPT !.queue = Tail(@), !.pc = "yielded"],
             inSet |-> wasInSet, yields |-> Head(tapper.queue)]
       ELSE [tapper |-> [tapper EXCEPT !.resolve = TRUE, !.promise = Pending,
                                       !.pc = "awaiting"],
             inSet |-> wasInSet, yields |-> Undefined]

\* ---------------------------------------------------------------- state
VARIABLES
  stream,      \* the AgentTaskStream of the task
  jobs,        \* the suspended producer calls, in microtask order
  calls,       \* what each producer call did (history)
  consumer,    \* the TaskStreamConsumer of the task
  tset,        \* consumer.tappers
  tap,         \* the tapper of each tap() generator
  aborted,     \* abortSignal.aborted
  primaryOut,  \* the events consume() yielded (history)
  bcast,       \* the events consume() broadcast to its tappers (history)
  tapOut,      \* the events each tap() yielded (history)
  tapReg,      \* Len(bcast) when each tap() registered its tapper (history)
  taskStore,   \* the server's Task Store: task id -> stored task
  consumers,   \* TaskStreamManager.consumers: task id -> the consumer's owner
  reqs,        \* the requests: method, params, handler position, frames sent
  streams,     \* the AgentTaskStream each request's context created
  sjobs,       \* the suspended producer calls of each of these streams
  cons,        \* the TaskStreamConsumer created for each request's stream
  taps,        \* the tapper of each request's tap() generator
  tsets,       \* the tappers set of each consumer
  mgrLog,      \* what each call on a TaskStreamManager of its own did (history)
  cx,          \* an AgentExecutionContext of its own: its id and currentTask
  cxLog,       \* what each setOrUpdateTask call on it did (history)
  queue,       \* an InMemoryQueue of its own
  qLog,        \* what each call on it did and what its promises hold (history)
  kv,          \* an InMemoryStore of its own: key -> {value, expiresAt}
  now,         \* Date.now()
  kvLog,       \* the last call on the store and the last set of each key (history)
  handlers,    \* JSONRPCServer._handlers of a server of its own
  rpcLog       \* what each handleRequest on it settled to (history)

coreVars == <<stream, jobs, calls, consumer, tset, tap, aborted, primaryOut, bcast, tapOut, tapReg>>
srvVars == <<taskStore, consumers, reqs, streams, sjobs, cons, taps, tsets>>
queueVars == <<queue, qLog>>
kvVars == <<kv, now, kvLog>>
rpcVars == <<handlers, rpcLog>>
libVars == <<queueVars, kvVars, rpcVars>>
auxVars == <<mgrLog, cx, cxLog, libVars>>
vars == <<coreVars, srvVars, auxVars>>

TaskId == "t1"
ContextId == "c1"

\* context.stream(cb): the task is set to submitted and the stream is created;
\* the manager holds a consumer for it whose consume() has not been pulled yet.
InitialTask == _createOrUpdateTask(ContextId, Undefined, EmptyParams, "submitted", TaskId)

\* ---------------------------------------------------------------- server state
Reqs == 1..NumReqs

\* uuidv4() of the task and of the context created for request r.
TaskIdOf(r) == "t" \o ToString(r)
ContextIdOf(r) == "c" \o ToString(r)
TaskIds == {TaskIdOf(r) : r \in Reqs}

NoContextId == ""   \* message.contextId is absent
NoConsumer == 0     \* consumers.get(id) is undefined
Methods == {"message/send", "message/stream", "tasks/resubscribe"}

\* A request r: its method, params.message.taskId (params.id of
\* tasks/resubscribe), where its handler stands, the task the handler read
\* from the store, the agent's result, the number of producer calls its agent
\* callback made, the consumer its tap() taps, the frames sent so far, the
\* number of AgentTaskStreams its context created (history), what the
\* consumer of its task id was doing when it arrived (history),
\* params.message.contextId and referenceTaskIds, the referenceTasks of its
\* context, and whether agentExecutor.execute was called for it (history).
NewReq ==
  [method |-> "", taskId |-> NoTaskId, pc |-> "none", task |-> Undefined,
   result |-> Undefined, ncalls |-> 0, tapOf |-> NoConsumer, frames |-> <<>>,
   nstreams |-> 0, consumerAt |-> "none",
   contextId |-> NoContextId, referenceTaskIds |-> Undefined,
   referenceTasks |-> Undefined, resolved |-> FALSE, invoked |-> FALSE,
   id |-> 0, response |-> Undefined]

\* The methods registerHandlers gives a handler, and the method of the
\* protocol it gives none.
RegisteredMethods ==
  {"message/send", "message/stream", "tasks/cancel",
   "tasks/pushNotificationConfig/set", "tasks/pushNotificationConfig/get",
   "tasks/resubscribe"}
UnregisteredMethods == {"tasks/get"}

methodNotFoundError == [kind |-> "error", error |-> "MethodNotFound", message |-> "Method not found"]
taskNotFoundError(why) == [kind |-> "error", error |-> "TaskNotFound", message |-> why]

\* One task stream right after context.stream(cb): the task is submitted, the
\* consumer created for it has not been pulled, nobody taps.
InitCore ==
  /\ stream = NewStream(ContextId, InitialTask)
  /\ jobs = <<>>
  /\ calls = <<>>
  /\ consumer = NewConsumer
  /\ tset = {}
  /\ tap = [t \in Tappers |-> NewTapper]
  /\ aborted = FALSE
  /\ primaryOut = <<>>
  /\ bcast = <<>>
  /\ tapOut = [t \in Tappers |-> <<>>]
  /\ tapReg = [t \in Tappers |-> 0]

\* The server after its construction: an empty store, no consumer, no request.
InitSrv ==
  /\ taskStore = [id \in TaskIds |-> Undefined]
  /\ consumers = [id \in TaskIds |-> NoConsumer]
  /\ reqs = [r \in Reqs |-> NewReq]
  /\ streams = [r \in Reqs |-> Undefined]
  /\ sjobs = [r \in Reqs |-> <<>>]
  /\ cons = [r \in Reqs |-> NewConsumer]
  /\ taps = [r \in Reqs |-> NewTapper]
  /\ tsets = [r \in Reqs |-> {}]

\* No call on the manager yet; a context made for a message without taskId.
InitAux ==
  /\ mgrLog = <<>>
  /\ cx = [cxId |-> ContextId, task |-> Undefined]
  /\ cxLog = <<>>

\* The keys of the InMemoryStore and the methods of the JSONRPCServer the
\* library specifications use.
Keys == {"k1", "k2"}
RpcMethods == {"m1", "m2"}
NoHandler == "none"     \* this._handlers.get(method) is undefined

\* A new InMemoryQueue, a new InMemoryStore at time 1, a new JSONRPCServer.
InitLib ==
  /\ queue = NewQueue
  /\ qLog = [enq |-> <<>>, deq |-> <<>>, close |-> <<>>]
  /\ kv = [k \in Keys |-> Undefined]
  /\ now = TickMs
  /\ kvLog = [sets |-> [k \in Keys |-> Undefined], last |-> Undefined]
  /\ handlers = [m \in RpcMethods |-> NoHandler]
  /\ rpcLog = <<>>

Init == InitCore /\ InitSrv /\ InitAux /\ InitLib

\* The dequeue promises a producer step resolved reach their owner.
deliver(c, woke) ==
  IF \E i \in 1..Len(woke) : woke[i][1] = "consumer"
  THEN [c EXCEPT !.promise = woke[CHOOSE i \in 1..Len(woke) : woke[i][1] = "consumer"][2]]
  ELSE c

\* ---------------------------------------------------------------- producer
\* The agent callback calls op on the stream: the call runs to its first await.
ProducerCall(op, sendTaskStatusUpdate) ==
  /\ Len(calls) < MaxCalls
  /\ Len(jobs) < MaxPending
  /\ LET call == Len(calls) + 1
         r == producerCall(stream, call, op, sendTaskStatusUpdate, EmptyParams)
     IN /\ stream' = [r.s EXCEPT !.woke = <<>>]
        /\ consumer' = deliver(consumer, r.s.woke)
        /\ jobs' = IF r.outcome = "suspended" THEN Append(jobs, r.job) ELSE jobs
        /\ calls' = Append(calls,
             [op |-> op, sendStatus |-> sendTaskStatusUpdate,
              before |-> stream.task.status.state, closedBefore |-> stream.closed,
              taskBefore |-> stream.task, logBefore |-> Len(stream.log),
              outcome |-> r.outcome, error |-> r.error,
              moved |-> r.s.task.status.state,
              after |-> r.s.task.status.state, taskAfter |-> r.s.task,
              logAfter |-> Len(r.s.log)])
  /\ UNCHANGED <<tset, tap, aborted, primaryOut, bcast, tapOut, tapReg, srvVars, auxVars>>

\* The microtask at the head of the producer's jobs runs.
ProducerStep ==
  /\ Len(jobs) > 0
  /\ LET job == Head(jobs)
     IN IF job.hops > 1
        THEN /\ jobs' = Append(Tail(jobs), [job EXCEPT !.hops = @ - 1])
             /\ UNCHANGED <<stream, consumer, calls>>
        ELSE LET r == producerResume(stream, job)
             IN /\ stream' = [r.s EXCEPT !.woke = <<>>]
                /\ consumer' = deliver(consumer, r.s.woke)
                /\ jobs' = IF r.outcome = "suspended"
                           THEN Append(Tail(jobs), r.job) ELSE Tail(jobs)
                /\ calls' = [calls EXCEPT ![job.call] =
                     [@ EXCEPT !.outcome = r.outcome,
                               !.after = r.s.task.status.state,
                               !.taskAfter = r.s.task,
                               !.logAfter = Len(r.s.log)]]
  /\ UNCHANGED <<tset, tap, aborted, primaryOut, bcast, tapOut, tapReg, srvVars, auxVars>>

\* ---------------------------------------------------------------- consumer
\* The first next() on consume(): up to the first await of dequeue().
ConsumeStart ==
  /\ consumer.pc = "idle"
  /\ IF consumer.consuming \/ consumer.finished
     THEN /\ consumer' = [consumer EXCEPT !.pc = "done"]
          /\ UNCHANGED <<stream, tap, tset>>
     ELSE LET r == consumeLoop([consumer EXCEPT !.consuming = TRUE],
                               stream.q, tap, tset, aborted)
          IN /\ consumer' = r.c
             /\ stream' = [stream EXCEPT !.q = r.q]
             /\ tap' = r.tap
             /\ tset' = r.tset
  /\ UNCHANGED <<jobs, calls, aborted, primaryOut, bcast, tapOut, tapReg, srvVars, auxVars>>

\* consume() resumes from await dequeue(): it ends, or yields the event.
ConsumeResume_NoYield ==
  /\ consumer.pc = "awaiting"
  /\ consumer.promise # Pending
  /\ LET event == consumer.promise
     IN IF event = Undefined \/ isEndOfStream(event)
        THEN LET r == consumeFinally(consumer, stream.q, tap, tset)
             IN /\ consumer' = r.c
                /\ tap' = r.tap
                /\ tset' = r.tset
        ELSE /\ consumer' = [consumer EXCEPT !.pc = "yielded", !.cur = event]
             /\ UNCHANGED <<tap, tset>>
  /\ UNCHANGED <<primaryOut, stream, jobs, calls, aborted, bcast, tapOut, tapReg, srvVars, auxVars>>
ConsumeResume ==
  /\ consumer.pc = "awaiting"
  /\ consumer.promise # Pending
  /\ LET event == consumer.promise
     IN IF event = Undefined \/ isEndOfStream(event)
        THEN LET r == consumeFinally(consumer, stream.q, tap, tset)
             IN /\ consumer' = r.c
                /\ tap' = r.tap
                /\ tset' = r.tset
                /\ UNCHANGED primaryOut
        ELSE /\ consumer' = [consumer EXCEPT !.pc = "yielded", !.cur = event]
             /\ primaryOut' = Append(primaryOut, event)
             /\ UNCHANGED <<tap, tset>>
  /\ UNCHANGED <<stream, jobs, calls, aborted, bcast, tapOut, tapReg, srvVars, auxVars>>

\* The primary consumer pulls again: consume() resumes from its yield,
\* broadcasts the event and goes round the loop.
PrimaryNext ==
  /\ consumer.pc = "yielded"
  /\ LET r == consumeLoop(consumer, stream.q,
                          broadcast(tap, tset, consumer.cur), tset, aborted)
     IN /\ consumer' = r.c
        /\ stream' = [stream EXCEPT !.q = r.q]
        /\ tap' = r.tap
        /\ tset' = r.tset
  /\ bcast' = Append(bcast, consumer.cur)
  /\ UNCHANGED <<jobs, calls, aborted, primaryOut, tapOut, tapReg, srvVars, auxVars>>

\* The request's abort signal trips.
Abort ==
  /\ ~aborted
  /\ aborted' = TRUE
  /\ UNCHANGED <<stream, jobs, calls, consumer, tset, tap, primaryOut, bcast, tapOut, tapReg, srvVars, auxVars>>

\* ---------------------------------------------------------------- tappers
\* One run of tap()'s loop for tapper t, from the tapper record tp0.
TapRun(t, tp0, wasInSet) ==
  LET r == tapLoop(tp0, consumer.finished, wasInSet)
  IN /\ tap' = [tap EXCEPT ![t] = r.tapper]
     /\ tset' = IF r.inSet THEN tset \cup {t} ELSE tset \ {t}
     /\ tapOut' = IF r.yields # Undefined
                  THEN [tapOut EXCEPT ![t] = Append(@, r.yields)] ELSE tapOut

\* The first next() on consumer.tap(): the tapper is added, the loop entered.
Tap(t) ==
  /\ tap[t].pc = "idle"
  /\ \A u \in Tappers : u < t => tap[u].pc # "idle"    \* tappers are numbered as they come
  /\ TapRun(t, tap[t], TRUE)
  /\ tapReg' = [tapReg EXCEPT ![t] = Len(bcast)]
  /\ UNCHANGED <<stream, jobs, calls, consumer, aborted, primaryOut, bcast, srvVars, auxVars>>

\* tap() resumes from its await: it yields the event, or ends on undefined.
TapResume(t) ==
  /\ tap[t].pc = "awaiting"
  /\ tap[t].promise # Pending
  /\ IF tap[t].promise # Undefined
     THEN /\ tap' = [tap EXCEPT ![t].pc = "yielded"]
          /\ tapOut' = [tapOut EXCEPT ![t] = Append(@, tap[t].promise)]
          /\ UNCHANGED tset
     ELSE /\ tap' = [tap EXCEPT ![t].pc = "done"]
          /\ tset' = tset \ {t}
          /\ UNCHANGED tapOut
  /\ UNCHANGED <<stream, jobs, calls, consumer, aborted, primaryOut, bcast, tapReg, srvVars, auxVars>>

\* The subscriber pulls again: tap() resumes from its yield.
TapNext(t) ==
  /\ tap[t].pc = "yielded"
  /\ TapRun(t, tap[t], t \in tset)
  /\ UNCHANGED <<stream, jobs, calls, consumer, aborted, primaryOut, bcast, tapReg, srvVars, auxVars>>

\* The calls the agent of Spec issues; the consumer never looks into a status,
\* so one terminal operation stands for the four state-setting ones there.
AgentOps == {"writeArtifact", "complete"}

Next ==
  \/ \E op \in AgentOps : ProducerCall(op, TRUE)
  \/ ProducerStep
  \/ ConsumeStart
  \/ ConsumeResume
  \/ PrimaryNext
  \/ \E t \in Tappers : Tap(t)
  \/ \E t \in Tappers : TapResume(t)
  \/ \E t \in Tappers : TapNext(t)

\* The consumer, its tappers and a producer on one task stream, the request
\* of the primary consumer never aborted.
Spec == Init /\ [][Next]_vars

NextAbort ==
  \/ \E op \in AgentOps : ProducerCall(op, TRUE)
  \/ ProducerStep
  \/ ConsumeStart
  \/ ConsumeResume
  \/ PrimaryNext
  \/ Abort
  \/ Tap(1)
  \/ TapResume(1)
  \/ TapNext(1)

\* The same with a request that can be aborted at any time, and one late
\* subscriber.
SpecAbort == Init /\ [][NextAbort]_vars

NextStream ==
  \/ \E op \in ProducerOps : ProducerCall(op, TRUE)
  \/ ProducerCall("writeArtifact", FALSE)
  \/ ProducerStep

\* The producer alone: every operation of AgentTaskStream on one stream.
SpecStream == Init /\ [][NextStream]_vars

\* ---------------------------------------------------------------- A2AServer
\* InMemoryStore.get and set, without a ttl as the server calls them.
get(store, key) == store[key]
set_Dropped(store, key, value) == store
set(store, key, value) == [store EXCEPT ![key] = value]

\* The task ids a request can name: the ids of the tasks of earlier requests.
TaskRefs(r) == {TaskIdOf(u) : u \in 1..(r - 1)}

\* this.id of the AgentExecutionContext of request r.
contextIdFor_MessageFirst(r) ==
  IF reqs[r].contextId # NoContextId THEN reqs[r].contextId
  ELSE IF reqs[r].task # Undefined THEN reqs[r].task.contextId ELSE ContextIdOf(r)
contextIdFor(r) ==
  IF reqs[r].task # Undefined /\ reqs[r].task.contextId # NoContextId
  THEN reqs[r].task.contextId
  ELSE IF reqs[r].contextId # NoContextId THEN reqs[r].contextId ELSE ContextIdOf(r)

\* TaskStreamManager.getConsumer and createConsumer (owner: the request whose
\* stream the new consumer reads).
getConsumer(cs, taskId) == cs[taskId]
createConsumer_Overwrite(cs, taskId, owner) ==
  [consumers |-> [cs EXCEPT ![taskId] = owner], threw |-> FALSE]
createConsumer(cs, taskId, owner) ==
  IF cs[taskId] # NoConsumer
  THEN [consumers |-> cs, threw |-> TRUE]
  ELSE [consumers |-> [cs EXCEPT ![taskId] = owner], threw |-> FALSE]

\* The consumer registered for taskId: none, idle (its consume() not started),
\* active, or finished.
ConsumerStatus(taskId) ==
  IF taskId = NoTaskId \/ getConsumer(consumers, taskId) = NoConsumer THEN "none"
  ELSE LET c == cons[getConsumer(consumers, taskId)]
       IN IF c.finished THEN "finished"
          ELSE IF c.consuming THEN "active" ELSE "idle"

\* referenceTaskIds.map(id => this._taskStore.get(id)) and the filter of the
\* results: the stored tasks of the ids, in their order, without the missing.
storedTasks(store, ids) == [i \in 1..Len(ids) |-> get(store, ids[i])]
resolveReferences_Unfiltered(store, ids) == storedTasks(store, ids)
resolveReferences(store, ids) ==
  SelectSeq(storedTasks(store, ids), LAMBDA task : task # Undefined)

\* The referenceTasks of the context, read from the store as it is now.
referencedTasks(r, referenceTaskIds) ==
  IF referenceTaskIds = Undefined THEN Undefined
  ELSE [kind |-> "tasks", list |-> resolveReferences(taskStore, referenceTaskIds.list)]

\* The handler of request r is invoked: it runs up to its first await.  With
\* a message.taskId that is the await of this._taskStore.get(id), which reads
\* the store at the call; without one the handler goes on to the reference
\* tasks and reads them.
Arrive(r, method, taskId, contextId, referenceTaskIds) ==
  /\ reqs[r].pc = "none"
  /\ \A u \in Reqs : u < r => reqs[u].pc # "none"    \* requests are numbered as they come
  /\ method \in RegisteredMethods
  /\ method = "tasks/resubscribe" => taskId # NoTaskId
  /\ reqs' = [reqs EXCEPT ![r] =
       [@ EXCEPT !.method = method, !.taskId = taskId, !.pc = "arrived",
                 !.consumerAt = ConsumerStatus(taskId),
                 !.contextId = contextId, !.referenceTaskIds = referenceTaskIds,
                 !.referenceTasks = IF taskId = NoTaskId
                                    THEN referencedTasks(r, referenceTaskIds) ELSE Undefined,
                 !.resolved = (taskId = NoTaskId \/ referenceTaskIds = Undefined),
                 !.task = IF taskId # NoTaskId THEN get(taskStore, taskId) ELSE Undefined]]
  /\ UNCHANGED <<taskStore, consumers, streams, sjobs, cons, taps, tsets, coreVars, auxVars>>

\* _handleMessage resumes with the task of message.taskId and reads the
\* reference tasks: up to its await of Promise.all.
ResolveReferences(r) ==
  /\ reqs[r].pc = "arrived"
  /\ reqs[r].method \in {"message/send", "message/stream"}
  /\ reqs[r].task # Undefined
  /\ ~reqs[r].resolved
  /\ reqs' = [reqs EXCEPT ![r].resolved = TRUE,
                          ![r].referenceTasks = referencedTasks(r, reqs[r].referenceTaskIds)]
  /\ UNCHANGED <<taskStore, consumers, streams, sjobs, cons, taps, tsets, coreVars, auxVars>>

\* JSONRPCServer.handleRequest for a method without a handler: the response is
\* the MethodNotFound error.
Unregistered(r, method, taskId) ==
  /\ reqs[r].pc = "none"
  /\ \A u \in Reqs : u < r => reqs[u].pc # "none"
  /\ method \notin RegisteredMethods
  /\ reqs' = [reqs EXCEPT ![r] =
       [@ EXCEPT !.method = method, !.taskId = taskId, !.pc = "done",
                 !.frames = <<methodNotFoundError>>]]
  /\ UNCHANGED <<taskStore, consumers, streams, sjobs, cons, taps, tsets, coreVars, auxVars>>

\* _handleMessage: message.taskId names a task the store does not hold.
MessageTaskNotFound_Executes(r) ==
  /\ reqs[r].pc = "arrived"
  /\ reqs[r].method \in {"message/send", "message/stream"}
  /\ reqs[r].taskId # NoTaskId /\ reqs[r].task = Undefined
  /\ reqs' = [reqs EXCEPT ![r].pc = "executed", ![r].invoked = TRUE,
       ![r].result = _createOrUpdateTask(contextIdFor(r), Undefined, EmptyParams,
                                         "completed", reqs[r].taskId)]
  /\ UNCHANGED <<taskStore, consumers, streams, sjobs, cons, taps, tsets, coreVars, auxVars>>
MessageTaskNotFound(r) ==
  /\ reqs[r].pc = "arrived"
  /\ reqs[r].method \in {"message/send", "message/stream"}
  /\ reqs[r].taskId # NoTaskId /\ reqs[r].task = Undefined
  /\ reqs' = [reqs EXCEPT ![r].result = taskNotFoundError("not found"),
                          ![r].pc = "executed"]
  /\ UNCHANGED <<taskStore, consumers, streams, sjobs, cons, taps, tsets, coreVars, auxVars>>

\* What the agent's execute() returns: context.message, context.inputRequired,
\* context.complete or context.stream.
AgentResults == {"message", "inputRequired", "complete", "stream"}

\* Every result method of the context: those and context.reject,
\* context.authRequired, and context.message with a messageId.
ContextResults == AgentResults \cup {"reject", "authRequired", "messageWithId"}

MessageIdOf(r) == "m" \o ToString(r)

\* _handleMessage from the creation of the context to the return of
\* agentExecutor.execute(context).
Execute(r, choice) ==
  /\ reqs[r].pc = "arrived"
  /\ reqs[r].method \in {"message/send", "message/stream"}
  /\ reqs[r].taskId # NoTaskId => reqs[r].task # Undefined
  /\ reqs[r].resolved
  /\ LET cxId == contextIdFor(r)
         state == IF choice = "stream" THEN "submitted"
                  ELSE IF choice \in {"message", "messageWithId"} THEN NoState
                  ELSE StateOfOp(choice)
         task == _createOrUpdateTask(cxId, reqs[r].task, EmptyParams, state, TaskIdOf(r))
     IN IF choice \in {"message", "messageWithId"}
        THEN /\ reqs' = [reqs EXCEPT ![r].pc = "executed", ![r].invoked = TRUE,
                           ![r].result = message(cxId, [parts |-> "text"],
                                           IF choice = "message" THEN NoMessageId
                                           ELSE MessageIdOf(r))]
             /\ UNCHANGED streams
        ELSE IF choice = "stream"
        THEN /\ reqs' = [reqs EXCEPT ![r].result = [kind |-> "stream", currentTask |-> task],
                                     ![r].pc = "executed", ![r].nstreams = 1,
                                     ![r].invoked = TRUE]
             /\ streams' = [streams EXCEPT ![r] = NewStream(cxId, task)]
        ELSE /\ reqs' = [reqs EXCEPT ![r].result = task, ![r].pc = "executed",
                                     ![r].invoked = TRUE]
             /\ UNCHANGED streams
  /\ UNCHANGED <<taskStore, consumers, sjobs, cons, taps, tsets, coreVars, auxVars>>

\* context.stream(cb) on a context with id cxId and the given currentTask: the
\* task is set to submitted, a new AgentTaskStream with a new queue is made.
contextStream(cxId, currentTask, taskId) ==
  LET task == _createOrUpdateTask(cxId, currentTask, EmptyParams, "submitted", taskId)
  IN [threw |-> FALSE, currentTask |-> task, taskStream |-> NewStream(cxId, task)]

\* As Execute, for an agent whose execute() calls context.stream(cb) twice on
\* its context and returns the second result.
ExecuteStreamTwice(r) ==
  /\ reqs[r].pc = "arrived"
  /\ reqs[r].method \in {"message/send", "message/stream"}
  /\ reqs[r].taskId # NoTaskId => reqs[r].task # Undefined
  /\ reqs[r].resolved
  /\ LET cxId == contextIdFor(r)
         first == contextStream(cxId, reqs[r].task, TaskIdOf(r))
         second == contextStream(cxId, first.currentTask, TaskIdOf(r))
         made == (IF first.threw THEN 0 ELSE 1) + (IF second.threw THEN 0 ELSE 1)
     IN IF second.threw
        THEN /\ reqs' = [reqs EXCEPT ![r].pc = "executed", ![r].nstreams = made, ![r].invoked = TRUE,
                           ![r].result = [kind |-> "error", error |-> "InvalidAgentResponse",
                                          message |-> "stream called twice"]]
             /\ UNCHANGED streams
        ELSE /\ reqs' = [reqs EXCEPT ![r].pc = "executed", ![r].nstreams = made, ![r].invoked = TRUE,
                           ![r].result = [kind |-> "stream",
                                          currentTask |-> second.currentTask]]
             /\ streams' = [streams EXCEPT ![r] = second.taskStream]
  /\ UNCHANGED <<taskStore, consumers, sjobs, cons, taps, tsets, coreVars, auxVars>>

\* A Task result: await this._taskStore.set(result.id, result).
StoreTask(r) ==
  /\ reqs[r].pc = "executed"
  /\ reqs[r].result.kind = "task"
  /\ taskStore' = set(taskStore, reqs[r].result.id, reqs[r].result)
  /\ reqs' = [reqs EXCEPT ![r].pc = "stored"]
  /\ UNCHANGED <<consumers, streams, sjobs, cons, taps, tsets, coreVars, auxVars>>

\* The response (message/send) or the only frame (message/stream) of an error,
\* Message or Task result.
Respond(r) ==
  /\ \/ reqs[r].pc = "stored"
     \/ reqs[r].pc = "executed" /\ reqs[r].result.kind \in {"error", "message"}
  /\ reqs' = [reqs EXCEPT ![r].frames = Append(@, reqs[r].result), ![r].pc = "done"]
  /\ UNCHANGED <<taskStore, consumers, streams, sjobs, cons, taps, tsets, coreVars, auxVars>>

\* message/send with a stream result: a consumer is created unless the task
\* has one, consumer.consume() makes a generator nobody pulls, and the
\* response carries the current task.
SendStream(r) ==
  /\ reqs[r].pc = "executed"
  /\ reqs[r].method = "message/send"
  /\ reqs[r].result.kind = "stream"
  /\ LET currentTask == reqs[r].result.currentTask
         task == streams[r].task
     IN IF task.id # currentTask.id \/ task.contextId # currentTask.contextId
        THEN /\ reqs' = [reqs EXCEPT ![r].pc = "done", ![r].frames = Append(@,
                           [kind |-> "error", error |-> "InvalidAgentResponse",
                            message |-> "Task mismatch"])]
             /\ UNCHANGED consumers
        ELSE /\ consumers' = IF getConsumer(consumers, task.id) = NoConsumer
                             THEN createConsumer(consumers, task.id, r).consumers
                             ELSE consumers
             /\ reqs' = [reqs EXCEPT ![r].pc = "done", ![r].frames = Append(@, currentTask)]
  /\ UNCHANGED <<taskStore, streams, sjobs, cons, taps, tsets, coreVars, auxVars>>

\* message/stream with a stream result: the initial Task frame.
StreamInitial_NoFrame(r) ==
  /\ reqs[r].pc = "executed"
  /\ reqs[r].method = "message/stream"
  /\ reqs[r].result.kind = "stream"
  /\ reqs' = [reqs EXCEPT ![r].pc = "initial"]
  /\ UNCHANGED <<taskStore, consumers, streams, sjobs, cons, taps, tsets, coreVars, auxVars>>
StreamInitial(r) ==
  /\ reqs[r].pc = "executed"
  /\ reqs[r].method = "message/stream"
  /\ reqs[r].result.kind = "stream"
  /\ reqs' = [reqs EXCEPT ![r].pc = "initial",
                          ![r].frames = Append(@, reqs[r].result.currentTask)]
  /\ UNCHANGED <<taskStore, consumers, streams, sjobs, cons, taps, tsets, coreVars, auxVars>>

\* for await (... of consumer.tap()) of request r on the consumer owned by c:
\* one run of tap()'s loop, and the frame of the event it yields.
SrvTapRun(r, c, wasInSet) ==
  LET tr == tapLoop(taps[r], cons[c].finished, wasInSet)
  IN /\ taps' = [taps EXCEPT ![r] = tr.tapper]
     /\ tsets' = [tsets EXCEPT ![c] = IF tr.inSet THEN @ \cup {r} ELSE @ \ {r}]
     /\ reqs' = [reqs EXCEPT
          ![r].tapOf = c,
          ![r].pc = IF tr.tapper.pc = "done" THEN "done" ELSE "tapping",
          ![r].frames = IF tr.yields # Undefined THEN Append(@, tr.yields) ELSE @]

\* message/stream after its initial frame was taken: tapOrConsume and the
\* first next() of for await on the generator it returns.
StreamAttach(r) ==
  /\ reqs[r].pc = "initial"
  /\ LET id == streams[r].task.id
         c == getConsumer(consumers, id)
     IN IF c # NoConsumer
        THEN /\ SrvTapRun(r, c, TRUE)
             /\ UNCHANGED <<consumers, cons, streams>>
        ELSE LET cr == consumeLoop([NewConsumer EXCEPT !.consuming = TRUE],
                                   streams[r].q, taps, tsets[r], FALSE)
             IN /\ consumers' = createConsumer(consumers, id, r).consumers
                /\ cons' = [cons EXCEPT ![r] = cr.c]
                /\ streams' = [streams EXCEPT ![r].q = cr.q]
                /\ reqs' = [reqs EXCEPT ![r].pc = "consuming"]
                /\ UNCHANGED <<taps, tsets>>
  /\ UNCHANGED <<taskStore, sjobs, coreVars, auxVars>>

\* _handleTaskResubscribe after its await of the store.
Resubscribe(r) ==
  /\ reqs[r].pc = "arrived"
  /\ reqs[r].method = "tasks/resubscribe"
  /\ IF reqs[r].task = Undefined
     THEN /\ reqs' = [reqs EXCEPT ![r].pc = "done",
                        ![r].frames = Append(@, taskNotFoundError("not found"))]
          /\ UNCHANGED <<taps, tsets>>
     ELSE LET c == getConsumer(consumers, reqs[r].task.id)
          IN IF c = NoConsumer
             THEN /\ reqs' = [reqs EXCEPT ![r].pc = "done",
                                ![r].frames = Append(@, taskNotFoundError("not active"))]
                  /\ UNCHANGED <<taps, tsets>>
             ELSE SrvTapRun(r, c, TRUE)
  /\ UNCHANGED <<taskStore, consumers, streams, sjobs, cons, coreVars, auxVars>>

\* consume() of the consumer owned by c resumes from await dequeue(): it ends
\* (and with it the handler), or yields the event, which the handler frames.
SrvConsumeResume(c) ==
  /\ cons[c].pc = "awaiting"
  /\ cons[c].promise # Pending
  /\ LET event == cons[c].promise
     IN IF event = Undefined \/ isEndOfStream(event)
        THEN LET fr == consumeFinally(cons[c], streams[c].q, taps, tsets[c])
             IN /\ cons' = [cons EXCEPT ![c] = fr.c]
                /\ taps' = fr.tap
                /\ tsets' = [tsets EXCEPT ![c] = fr.tset]
                /\ reqs' = [reqs EXCEPT ![c].pc = "done"]
        ELSE /\ cons' = [cons EXCEPT ![c] = [@ EXCEPT !.pc = "yielded", !.cur = event]]
             /\ reqs' = [reqs EXCEPT ![c].frames = Append(@, event)]
             /\ UNCHANGED <<taps, tsets>>
  /\ UNCHANGED <<taskStore, consumers, streams, sjobs, coreVars, auxVars>>

\* The client of c takes the frame: consume() resumes from its yield,
\* broadcasts the event to its tappers and asks the queue for the next one.
SrvPrimaryNext(c) ==
  /\ cons[c].pc = "yielded"
  /\ LET cr == consumeLoop(cons[c], streams[c].q,
                           broadcast(taps, tsets[c], cons[c].cur), tsets[c], FALSE)
     IN /\ cons' = [cons EXCEPT ![c] = cr.c]
        /\ streams' = [streams EXCEPT ![c].q = cr.q]
        /\ taps' = cr.tap
        /\ tsets' = [tsets EXCEPT ![c] = cr.tset]
  /\ UNCHANGED <<taskStore, consumers, reqs, sjobs, coreVars, auxVars>>

\* tap() of request r resumes from its await.
SrvTapResume(r) ==
  /\ reqs[r].pc = "tapping"
  /\ taps[r].pc = "awaiting"
  /\ taps[r].promise # Pending
  /\ IF taps[r].promise # Undefined
     THEN /\ taps' = [taps EXCEPT ![r].pc = "yielded"]
          /\ reqs' = [reqs EXCEPT ![r].frames = Append(@, taps[r].promise)]
          /\ UNCHANGED tsets
     ELSE /\ taps' = [taps EXCEPT ![r].pc = "done"]
          /\ tsets' = [tsets EXCEPT ![reqs[r].tapOf] = @ \ {r}]
          /\ reqs' = [reqs EXCEPT ![r].pc = "done"]
  /\ UNCHANGED <<taskStore, consumers, streams, sjobs, cons, coreVars, auxVars>>

\* The client of r takes the frame: tap() resumes from its yield.
SrvTapNext(r) ==
  /\ reqs[r].pc = "tapping"
  /\ taps[r].pc = "yielded"
  /\ SrvTapRun(r, reqs[r].tapOf, r \in tsets[reqs[r].tapOf])
  /\ UNCHANGED <<taskStore, consumers, streams, sjobs, cons, coreVars, auxVars>>

\* The agent callback of request r calls op on its stream; the agent of this
\* specification awaits each of its calls.
SrvProducerCall(r, op) ==
  /\ streams[r] # Undefined
  /\ reqs[r].ncalls < MaxSrvCalls
  /\ sjobs[r] = <<>>
  /\ LET pr == producerCall(streams[r], reqs[r].ncalls + 1, op, TRUE, EmptyParams)
     IN /\ streams' = [streams EXCEPT ![r] = [pr.s EXCEPT !.woke = <<>>]]
        /\ cons' = [cons EXCEPT ![r] = deliver(@, pr.s.woke)]
        /\ sjobs' = [sjobs EXCEPT ![r] = IF pr.outcome = "suspended" THEN <<pr.job>> ELSE <<>>]
  /\ reqs' = [reqs EXCEPT ![r].ncalls = @ + 1]
  /\ UNCHANGED <<taskStore, consumers, taps, tsets, coreVars, auxVars>>

\* The suspended producer call of request r's stream runs its next step.
SrvProducerStep(r) ==
  /\ Len(sjobs[r]) > 0
  /\ LET job == Head(sjobs[r])
     IN IF job.hops > 1
        THEN /\ sjobs' = [sjobs EXCEPT ![r] = Append(Tail(@), [job EXCEPT !.hops = @ - 1])]
             /\ UNCHANGED <<streams, cons>>
        ELSE LET pr == producerResume(streams[r], job)
             IN /\ streams' = [streams EXCEPT ![r] = [pr.s EXCEPT !.woke = <<>>]]
                /\ cons' = [cons EXCEPT ![r] = deliver(@, pr.s.woke)]
                /\ sjobs' = [sjobs EXCEPT ![r] = IF pr.outcome = "suspended"
                                                 THEN Append(Tail(@), pr.job) ELSE Tail(@)]
  /\ UNCHANGED <<taskStore, consumers, reqs, taps, tsets, coreVars, auxVars>>

NextSrv ==
  \/ \E r \in Reqs, method \in Methods :
       \E taskId \in {NoTaskId} \cup TaskRefs(r) :
         Arrive(r, method, taskId, NoContextId, Undefined)
  \/ \E r \in Reqs, method \in UnregisteredMethods :
       \E taskId \in TaskRefs(r) : Unregistered(r, method, taskId)
  \/ \E r \in Reqs : MessageTaskNotFound(r)
  \/ \E r \in Reqs, choice \in AgentResults : Execute(r, choice)
  \/ \E r \in Reqs : StoreTask(r)
  \/ \E r \in Reqs : Respond(r)
  \/ \E r \in Reqs : SendStream(r)
  \/ \E r \in Reqs : StreamInitial(r)
  \/ \E r \in Reqs : StreamAttach(r)
  \/ \E r \in Reqs : Resubscribe(r)
  \/ \E r \in Reqs : SrvConsumeResume(r)
  \/ \E r \in Reqs : SrvPrimaryNext(r)
  \/ \E r \in Reqs : SrvTapResume(r)
  \/ \E r \in Reqs : SrvTapNext(r)
  \/ \E r \in Reqs, op \in AgentOps : SrvProducerCall(r, op)
  \/ \E r \in Reqs : SrvProducerStep(r)

\* The server: its handlers of message/send, message/stream and
\* tasks/resubscribe over the Task Store and the TaskStreamManager.
SpecSrv == Init /\ [][NextSrv]_vars

\* ---------------------------------------------------------------- TaskStreamManager
\* TaskStreamManager.remove.
remove(cs, taskId) == [cs EXCEPT ![taskId] = NoConsumer]

\* A caller calls createConsumer for a stream of task taskId.
MgrCreateConsumer(taskId, owner) ==
  /\ Len(mgrLog) < MaxMgrOps
  /\ LET cr == createConsumer(consumers, taskId, owner)
     IN /\ consumers' = cr.consumers
        /\ mgrLog' = Append(mgrLog,
             [op |-> "createConsumer", taskId |-> taskId, owner |-> owner,
              before |-> consumers, after |-> cr.consumers, threw |-> cr.threw])
  /\ UNCHANGED <<taskStore, reqs, streams, sjobs, cons, taps, tsets, coreVars, cx, cxLog, libVars>>

\* A caller calls remove(taskId).
MgrRemove(taskId) ==
  /\ Len(mgrLog) < MaxMgrOps
  /\ consumers' = remove(consumers, taskId)
  /\ mgrLog' = Append(mgrLog,
       [op |-> "remove", taskId |-> taskId, owner |-> NoConsumer,
        before |-> consumers, after |-> remove(consumers, taskId), threw |-> FALSE])
  /\ UNCHANGED <<taskStore, reqs, streams, sjobs, cons, taps, tsets, coreVars, cx, cxLog, libVars>>

NextMgr ==
  \/ \E taskId \in TaskIds, owner \in Reqs : MgrCreateConsumer(taskId, owner)
  \/ \E taskId \in TaskIds : MgrRemove(taskId)

\* A TaskStreamManager under any sequence of calls of its methods.
SpecMgr == Init /\ [][NextMgr]_vars

NextCtx ==
  \/ \E r \in Reqs, method \in {"message/send", "message/stream"} :
       \E taskId \in {NoTaskId} \cup TaskRefs(r) :
         Arrive(r, method, taskId, NoContextId, Undefined)
  \/ \E r \in Reqs : MessageTaskNotFound(r)
  \/ \E r \in Reqs, choice \in AgentResults : Execute(r, choice)
  \/ \E r \in Reqs : ExecuteStreamTwice(r)
  \/ \E r \in Reqs : StoreTask(r)
  \/ \E r \in Reqs : Respond(r)
  \/ \E r \in Reqs, op \in AgentOps : SrvProducerCall(r, op)
  \/ \E r \in Reqs : SrvProducerStep(r)

\* The agent side of the server: the execution contexts of the requests, what
\* their agents do with them, and the streams they create, without consumers.
SpecCtx == Init /\ [][NextCtx]_vars

\* ---------------------------------------------------------------- the store and the references
\* InMemoryStore.delete, called by whoever holds the store.
delete(store, key) == [store EXCEPT ![key] = Undefined]

StoreDelete(id) ==
  /\ get(taskStore, id) # Undefined
  /\ taskStore' = delete(taskStore, id)
  /\ UNCHANGED <<consumers, reqs, streams, sjobs, cons, taps, tsets, coreVars, auxVars>>

\* The sequences of at most n elements of S.
SeqsUpTo(S, n) == UNION {[1..k -> S] : k \in 0..n}

\* What params.message.referenceTaskIds of request r can be.
RefLists(r) ==
  {Undefined} \cup {[kind |-> "ids", list |-> l] : l \in SeqsUpTo(TaskRefs(r), MaxRefs)}

NextStore ==
  \/ \E r \in Reqs, method \in {"message/send", "message/stream"} :
       \E taskId \in {NoTaskId} \cup TaskRefs(r), refs \in RefLists(r) :
         Arrive(r, method, taskId, NoContextId, refs)
  \/ \E r \in Reqs : ResolveReferences(r)
  \/ \E r \in Reqs : MessageTaskNotFound(r)
  \/ \E r \in Reqs : Execute(r, "complete")
  \/ \E r \in Reqs : StoreTask(r)
  \/ \E r \in Reqs : Respond(r)
  \/ \E id \in TaskIds : StoreDelete(id)

\* _handleMessage over a store whose entries can be deleted: the lookup of
\* message.taskId and of referenceTaskIds.
SpecStore == Init /\ [][NextStore]_vars

\* ---------------------------------------------------------------- tasks across requests
MessageContextIds == {NoContextId, "cx"}

NextTask ==
  \/ \E r \in Reqs, method \in {"message/send", "message/stream"} :
       \E taskId \in {NoTaskId} \cup TaskRefs(r), contextId \in MessageContextIds :
         Arrive(r, method, taskId, contextId, Undefined)
  \/ \E r \in Reqs : MessageTaskNotFound(r)
  \/ \E r \in Reqs, choice \in ContextResults : Execute(r, choice)
  \/ \E r \in Reqs : StoreTask(r)
  \/ \E r \in Reqs : Respond(r)

\* The tasks and messages the contexts of successive requests produce, with
\* every result method and any message.contextId.
SpecTask == Init /\ [][NextTask]_vars

\* ---------------------------------------------------------------- one context
Artifacts == {"a1", "a2"}
MessageParams == {Undefined, [parts |-> "p1"], [parts |-> "p2"]}
CallStates == {"working", "input-required", "completed"}

\* The AgentTaskParams of a call.
TaskParams ==
  {[artifacts |-> a, message |-> m] : a \in SeqsUpTo(Artifacts, MaxArtifacts), m \in MessageParams}

\* context.setOrUpdateTask(taskParams, taskState, taskId) on cx.
CxSetOrUpdateTask(taskParams, taskState) ==
  /\ Len(cxLog) < MaxCxCalls
  /\ LET task == _createOrUpdateTask(cx.cxId, cx.task, taskParams, taskState, TaskId)
     IN /\ cx' = [cx EXCEPT !.task = task]
        /\ cxLog' = Append(cxLog, [params |-> taskParams, state |-> taskState,
                                   before |-> cx.task, after |-> task])
  /\ UNCHANGED <<mgrLog, coreVars, srvVars, libVars>>

NextCalls ==
  \E taskParams \in TaskParams, taskState \in CallStates :
    CxSetOrUpdateTask(taskParams, taskState)

\* One context under any sequence of setOrUpdateTask calls.
SpecCalls == Init /\ [][NextCalls]_vars

\* ---------------------------------------------------------------- single-response methods
UnaryMethods ==
  {"message/send", "tasks/cancel",
   "tasks/pushNotificationConfig/set", "tasks/pushNotificationConfig/get"}
PushMethods == {"tasks/pushNotificationConfig/set", "tasks/pushNotificationConfig/get"}
RequestIds == {1, 2}

invalidAgentResponseError(why) ==
  [kind |-> "error", error |-> "InvalidAgentResponse", message |-> why]
pushNotificationNotSupportedError ==
  [kind |-> "error", error |-> "PushNotificationNotSupported", message |-> "not supported"]
taskNotCancelableError ==
  [kind |-> "error", error |-> "TaskNotCancelable", message |-> "not cancelable"]

\* The JSONRPCResponse a handler returns for what it has to answer: an error
\* goes into error, anything else into result.
jsonRpcResponse_Both(id, payload) ==
  [jsonrpc |-> "2.0", id |-> id, result |-> payload, error |-> payload]
jsonRpcResponse(id, payload) ==
  IF payload.kind = "error"
  THEN [jsonrpc |-> "2.0", id |-> id, error |-> payload]
  ELSE [jsonrpc |-> "2.0", id |-> id, result |-> payload]

\* A2AServer.handleRequest on a running server for a request with the given
\* id and a single-response method: the handler runs up to its first await,
\* the read of the store (message/send without taskId has none before the
\* agent is called).
Receive(r, id, method, taskId) ==
  /\ reqs[r].pc = "none"
  /\ \A u \in Reqs : u < r => reqs[u].pc # "none"
  /\ method \in UnaryMethods \cap RegisteredMethods
  /\ reqs' = [reqs EXCEPT ![r] =
       [@ EXCEPT !.id = id, !.method = method, !.taskId = taskId, !.pc = "arrived",
                 !.consumerAt = ConsumerStatus(taskId), !.resolved = TRUE,
                 !.task = IF taskId # NoTaskId THEN get(taskStore, taskId) ELSE Undefined]]
  /\ UNCHANGED <<taskStore, consumers, streams, sjobs, cons, taps, tsets, coreVars, auxVars>>

\* What else agentExecutor.execute can do: return a JSON-RPC error, return a
\* value of no known kind, throw an Error, throw a JSON-RPC error.
ExecuteFailures == {"error", "unknown", "throws", "throwsError"}
ExecuteFails(r, how) ==
  /\ reqs[r].pc = "arrived"
  /\ reqs[r].method \in {"message/send", "message/stream"}
  /\ reqs[r].taskId # NoTaskId => reqs[r].task # Undefined
  /\ reqs[r].resolved
  /\ reqs' = [reqs EXCEPT ![r].pc = "executed", ![r].invoked = TRUE,
       ![r].result = IF how \in {"error", "throwsError"} THEN taskNotCancelableError
                     ELSE IF how = "unknown"
                     THEN invalidAgentResponseError("Unknown result type")
                     ELSE invalidAgentResponseError("thrown")]
  /\ UNCHANGED <<taskStore, consumers, streams, sjobs, cons, taps, tsets, coreVars, auxVars>>

\* _handleTaskCancel after its read of the store: TaskNotFound without a
\* task, else agentExecutor.cancel(task) is called and awaited.
CancelInvoke_Always(r) ==
  /\ reqs[r].pc = "arrived"
  /\ reqs[r].method = "tasks/cancel"
  /\ reqs' = [reqs EXCEPT ![r].pc = "canceling", ![r].invoked = TRUE]
  /\ UNCHANGED <<taskStore, consumers, streams, sjobs, cons, taps, tsets, coreVars, auxVars>>
CancelInvoke(r) ==
  /\ reqs[r].pc = "arrived"
  /\ reqs[r].method = "tasks/cancel"
  /\ reqs' = IF reqs[r].task = Undefined
             THEN [reqs EXCEPT ![r].pc = "done",
                               ![r].frames = Append(@, taskNotFoundError("not found"))]
             ELSE [reqs EXCEPT ![r].pc = "canceling", ![r].invoked = TRUE]
  /\ UNCHANGED <<taskStore, consumers, streams, sjobs, cons, taps, tsets, coreVars, auxVars>>

\* What agentExecutor.cancel(task) settles to: the task canceled, the task as
\* it is, a JSON-RPC error, or a thrown Error or JSON-RPC error.
CancelOutcomes == {"canceled", "same", "error", "throws", "throwsError"}
cancelReturn(task, outcome) ==
  IF outcome = "canceled" THEN [task EXCEPT !.status.state = "canceled"]
  ELSE IF outcome = "same" THEN task
  ELSE IF outcome = "error" THEN taskNotCancelableError
  ELSE [kind |-> "thrown",
        value |-> IF outcome = "throwsError" THEN taskNotCancelableError
                  ELSE [kind |-> "Error", message |-> "thrown"]]

\* _handleTaskCancel resumes from its await of agentExecutor.cancel(task).
CancelSettle(r, outcome) ==
  /\ reqs[r].pc = "canceling"
  /\ LET returned == cancelReturn(reqs[r].task, outcome)
         payload == IF returned.kind # "thrown" THEN returned
                    ELSE IF returned.value.kind = "error" THEN returned.value
                    ELSE invalidAgentResponseError(returned.value.message)
     IN reqs' = [reqs EXCEPT ![r].pc = "done", ![r].result = returned,
                             ![r].frames = Append(@, payload)]
  /\ UNCHANGED <<taskStore, consumers, streams, sjobs, cons, taps, tsets, coreVars, auxVars>>

\* _handleTaskPushNotificationSet and Get after their read of the store.
PushConfig(r) ==
  /\ reqs[r].pc = "arrived"
  /\ reqs[r].method \in PushMethods
  /\ reqs' = [reqs EXCEPT ![r].pc = "done", ![r].frames = Append(@,
       IF reqs[r].task = Undefined THEN taskNotFoundError("not found")
       ELSE IF reqs[r].method = "tasks/pushNotificationConfig/set"
       THEN [kind |-> "push-notification-config", taskId |-> reqs[r].taskId]
       ELSE pushNotificationNotSupportedError)]
  /\ UNCHANGED <<taskStore, consumers, streams, sjobs, cons, taps, tsets, coreVars, auxVars>>

\* The handler registered for the method returns {response: result} and
\* handleRequest hands it to the caller.
Return(r) ==
  /\ reqs[r].pc = "done"
  /\ reqs[r].method \in UnaryMethods
  /\ reqs[r].response = Undefined
  /\ reqs' = [reqs EXCEPT ![r].response =
       [response |-> jsonRpcResponse(reqs[r].id, reqs[r].frames[Len(reqs[r].frames)]),
        stream |-> Undefined]]
  /\ UNCHANGED <<taskStore, consumers, streams, sjobs, cons, taps, tsets, coreVars, auxVars>>

\* The results of the agent that differ for a single-response handler: a
\* Message, a Task, a stream.
UnaryResults == {"message", "complete", "stream"}

NextUnary ==
  \/ \E r \in Reqs, id \in RequestIds, method \in UnaryMethods :
       \E taskId \in {NoTaskId} \cup TaskRefs(r) : Receive(r, id, method, taskId)
  \/ \E r \in Reqs : MessageTaskNotFound(r)
  \/ \E r \in Reqs, choice \in UnaryResults : Execute(r, choice)
  \/ \E r \in Reqs, how \in ExecuteFailures : ExecuteFails(r, how)
  \/ \E r \in Reqs : StoreTask(r)
  \/ \E r \in Reqs : Respond(r)
  \/ \E r \in Reqs : SendStream(r)
  \/ \E r \in Reqs : CancelInvoke(r)
  \/ \E r \in Reqs, outcome \in CancelOutcomes : CancelSettle(r, outcome)
  \/ \E r \in Reqs : PushConfig(r)
  \/ \E r \in Reqs : Return(r)

\* The single-response methods of a running server, with every return and
\* throw of the agent executor.
SpecUnary == Init /\ [][NextUnary]_vars

\* ---------------------------------------------------------------- the ways consume() ends
\* The primary consumer stops iterating while consume() stands at its yield
\* (a break or a throw in its for await loop calls return() on the
\* generator): the finally block runs.
PrimaryReturn ==
  /\ consumer.pc = "yielded"
  /\ LET r == consumeFinally(consumer, stream.q, tap, tset)
     IN /\ consumer' = r.c
        /\ tap' = r.tap
        /\ tset' = r.tset
  /\ UNCHANGED <<stream, jobs, calls, aborted, primaryOut, bcast, tapOut, tapReg, srvVars, auxVars>>

\* The holder of the stream's queue closes it.
StreamQueueClose ==
  /\ ~stream.q.isClosed
  /\ LET r == close(stream.q)
     IN /\ stream' = [stream EXCEPT !.q = r.q]
        /\ consumer' = deliver(consumer, r.woke)
  /\ UNCHANGED <<jobs, calls, tset, tap, aborted, primaryOut, bcast, tapOut, tapReg, srvVars, auxVars>>

NextExit ==
  \/ \E op \in AgentOps : Len(calls) < MaxExitCalls /\ ProducerCall(op, TRUE)
  \/ ProducerStep
  \/ ConsumeStart
  \/ ConsumeResume
  \/ PrimaryNext
  \/ PrimaryReturn
  \/ Abort
  \/ StreamQueueClose
  \/ \E t \in Tappers : Tap(t)
  \/ \E t \in Tappers : TapResume(t)
  \/ \E t \in Tappers : TapNext(t)

\* The consumer and its tappers when consume() can end in every way it has;
\* a tapper's continuation runs once its promise is settled, and a subscriber
\* that stands on an event pulls again.
SpecExit ==
  /\ Init /\ [][NextExit]_vars
  /\ \A t \in Tappers : WF_vars(TapResume(t)) /\ WF_vars(TapNext(t))

\* ---------------------------------------------------------------- one queue
\* The k-th item enqueued.
QItem(k) == [kind |-> "item", n |-> k]

QOps == Len(qLog.enq) + Len(qLog.deq) + Len(qLog.close)

\* The dequeue promises in woke are resolved: the calls that own them hold
\* the value.
settle(deq, woke) ==
  [i \in 1..Len(deq) |->
     IF \E j \in 1..Len(woke) : woke[j][1] = i
     THEN [deq[i] EXCEPT !.value = woke[CHOOSE j \in 1..Len(woke) : woke[j][1] = i][2]]
     ELSE deq[i]]

\* queue.enqueue(item).
QEnqueue ==
  /\ QOps < MaxQueueOps
  /\ LET r == enqueue(queue, QItem(Len(qLog.enq) + 1))
     IN /\ queue' = r.q
        /\ qLog' = [qLog EXCEPT
             !.enq = Append(@, [item |-> QItem(Len(qLog.enq) + 1), closed |-> queue.isClosed,
                                waiters |-> Len(queue.pending), woke |-> Len(r.woke),
                                size |-> size(r.q)]),
             !.deq = settle(@, r.woke)]
  /\ UNCHANGED <<coreVars, srvVars, mgrLog, cx, cxLog, kvVars, rpcVars>>

\* queue.dequeue(): the promise it returns holds an item, undefined, or is
\* pending.
QDequeue ==
  /\ QOps < MaxQueueOps
  /\ LET r == dequeue(queue, Len(qLog.deq) + 1)
     IN /\ queue' = r.q
        /\ qLog' = [qLog EXCEPT
             !.deq = Append(@, [value |-> r.value, suspended |-> r.value = Pending,
                                empty |-> isEmpty(queue), closed |-> queue.isClosed])]
  /\ UNCHANGED <<coreVars, srvVars, mgrLog, cx, cxLog, kvVars, rpcVars>>

\* queue.close().
QClose ==
  /\ QOps < MaxQueueOps
  /\ LET r == close(queue)
     IN /\ queue' = r.q
        /\ qLog' = [qLog EXCEPT
             !.close = Append(@, [before |-> queue, after |-> r.q, woke |-> Len(r.woke)]),
             !.deq = settle(@, r.woke)]
  /\ UNCHANGED <<coreVars, srvVars, mgrLog, cx, cxLog, kvVars, rpcVars>>

NextQueue == QEnqueue \/ QDequeue \/ QClose

\* One InMemoryQueue under any sequence of enqueue, dequeue and close calls.
SpecQueue == Init /\ [][NextQueue]_vars

\* ---------------------------------------------------------------- InMemoryStore and its clock
NoExpiry == 0          \* expiresAt is undefined (falsy, as 0)
MsPerSecond == 1000

KvValues == {[kind |-> "value", v |-> 1], [kind |-> "value", v |-> 2]}
\* The ttl of a set: negative, absent (falsy, as 0), or seconds.
Ttls == {-1, 0, 1}

\* if (ttl && ttl > 0) expiresAt = Date.now() + ttl * 1000.
expiresAt(ttl, t) == IF ttl # 0 /\ ttl > 0 THEN t + ttl * MsPerSecond ELSE NoExpiry

\* entry.expiresAt && entry.expiresAt < Date.now().
isExpired(entry, t) == entry.expiresAt # NoExpiry /\ entry.expiresAt < t

\* The operations return the new store and their value.
storeSet(store, key, value, ttl, t) ==
  [store |-> [store EXCEPT ![key] = [value |-> value, expiresAt |-> expiresAt(ttl, t)]],
   value |-> Undefined]

storeGet(store, key, t) ==
  IF store[key] = Undefined THEN [store |-> store, value |-> Undefined]
  ELSE IF isExpired(store[key], t)
       THEN [store |-> [store EXCEPT ![key] = Undefined], value |-> Undefined]
       ELSE [store |-> store, value |-> store[key].value]

storeDelete(store, key) ==
  [store |-> [store EXCEPT ![key] = Undefined],
   value |-> [kind |-> "boolean", is |-> store[key] # Undefined]]

storeHas(store, key, t) ==
  IF store[key] = Undefined THEN [store |-> store, value |-> [kind |-> "boolean", is |-> FALSE]]
  ELSE IF isExpired(store[key], t)
       THEN [store |-> [store EXCEPT ![key] = Undefined],
             value |-> [kind |-> "boolean", is |-> FALSE]]
       ELSE [store |-> store, value |-> [kind |-> "boolean", is |-> TRUE]]

storeClear(store) == [store |-> [k \in DOMAIN store |-> Undefined], value |-> Undefined]

cleanupExpired_Skip(store, t) == store
cleanupExpired(store, t) ==
  [k \in DOMAIN store |->
     IF store[k] # Undefined /\ isExpired(store[k], t) THEN Undefined ELSE store[k]]

storeKeys(store, t) ==
  LET st == cleanupExpired(store, t)
  IN [store |-> st, value |-> [kind |-> "keys", keys |-> {k \in DOMAIN st : st[k] # Undefined}]]

storeValues(store, t) ==
  LET st == cleanupExpired(store, t)
  IN [store |-> st,
      value |-> [kind |-> "keys", keys |-> {k \in DOMAIN st : st[k] # Undefined},
                 values |-> {st[k].value : k \in {j \in DOMAIN st : st[j] # Undefined}}]]

storeEntries(store, t) ==
  LET st == cleanupExpired(store, t)
  IN [store |-> st,
      value |-> [kind |-> "keys", keys |-> {k \in DOMAIN st : st[k] # Undefined},
                 entries |-> {<<k, st[k].value>> : k \in {j \in DOMAIN st : st[j] # Undefined}}]]

\* A call op(key, ...) on the store at the present time: the store changes as
\* the operation says, the history keeps the call, its value, and what was
\* last set under each key before it.
KvCall(op, key, r, sets) ==
  /\ kv' = r.store
  /\ kvLog' = [sets |-> sets,
               last |-> [op |-> op, key |-> key, at |-> now, value |-> r.value,
                         sets |-> kvLog.sets]]
  /\ UNCHANGED <<now, coreVars, srvVars, mgrLog, cx, cxLog, queueVars, rpcVars>>

KvSet(key, value, ttl) ==
  KvCall("set", key, storeSet(kv, key, value, ttl, now),
         [kvLog.sets EXCEPT ![key] = [value |-> value, ttl |-> ttl, at |-> now]])
KvGet(key) == KvCall("get", key, storeGet(kv, key, now), kvLog.sets)
KvHas(key) == KvCall("has", key, storeHas(kv, key, now), kvLog.sets)
KvDelete(key) ==
  KvCall("delete", key, storeDelete(kv, key), [kvLog.sets EXCEPT ![key] = Undefined])
KvClear == KvCall("clear", "", storeClear(kv), [k \in Keys |-> Undefined])
KvKeys == KvCall("keys", "", storeKeys(kv, now), kvLog.sets)
KvValuesCall == KvCall("values", "", storeValues(kv, now), kvLog.sets)
KvEntries == KvCall("entries", "", storeEntries(kv, now), kvLog.sets)

\* The clock advances.
Tick ==
  /\ now < MaxTicks * TickMs
  /\ now' = now + TickMs
  /\ UNCHANGED <<kv, kvLog, coreVars, srvVars, mgrLog, cx, cxLog, queueVars, rpcVars>>

NextKv ==
  \/ \E key \in Keys, value \in KvValues, ttl \in Ttls : KvSet(key, value, ttl)
  \/ \E key \in Keys : KvGet(key)
  \/ \E key \in Keys : KvHas(key)
  \/ \E key \in Keys : KvDelete(key)
  \/ KvClear
  \/ KvKeys
  \/ KvValuesCall
  \/ KvEntries
  \/ Tick

\* One InMemoryStore under any sequence of calls while the clock advances.
SpecKv == Init /\ [][NextKv]_vars

\* ---------------------------------------------------------------- JSONRPCServer
MethodNotFoundError == -32601
InternalError == -32603

RpcIds == {1, 2}

\* What a registered handler does when it is called: an async function that
\* returns {response} or {stream}, an async function that throws (the promise
\* it returns rejects), or a function that throws before it returns a promise.
HandlerKinds == {"response", "stream", "rejects", "throws"}

\* this._handlers.set(methodName, handler).
setRequestHandler(hs, methodName, handler) == [hs EXCEPT ![methodName] = handler]

errorResponse_NoId(id, code, text) ==
  [jsonrpc |-> "2.0", id |-> 0, error |-> [code |-> code, message |-> text]]
errorResponse(id, code, text) ==
  [jsonrpc |-> "2.0", id |-> id, error |-> [code |-> code, message |-> text]]

\* What the promise of a called handler settles to.
callHandler(handler, request) ==
  IF handler = "rejects" THEN [settled |-> "rejected"]
  ELSE IF handler = "stream"
  THEN [settled |-> "fulfilled", response |-> Undefined, stream |-> TRUE]
  ELSE [settled |-> "fulfilled", stream |-> FALSE,
        response |-> [jsonrpc |-> "2.0", id |-> request.id, result |-> "ok"]]

\* handleRequest: what its promise settles to and whether a handler was
\* called.  `return handler(...)` hands the handler's promise over without
\* awaiting it inside the try block: the catch clause sees only what is
\* thrown before the handler returns its promise.
handleRequest(hs, request) ==
  LET handler == hs[request.method]
  IN IF handler = NoHandler
     THEN [invoked |-> FALSE,
           outcome |-> [settled |-> "fulfilled", stream |-> FALSE,
                        response |-> errorResponse(request.id, MethodNotFoundError,
                                                   "Method not found")]]
     ELSE IF handler = "throws"
     THEN [invoked |-> TRUE,
           outcome |-> [settled |-> "fulfilled", stream |-> FALSE,
                        response |-> errorResponse(request.id, InternalError,
                                                   "Internal error")]]
     ELSE [invoked |-> TRUE, outcome |-> callHandler(handler, request)]

\* server.setRequestHandler(methodName, handler).
RpcSetRequestHandler(methodName, handler) ==
  /\ handlers[methodName] # handler
  /\ handlers' = setRequestHandler(handlers, methodName, handler)
  /\ UNCHANGED <<rpcLog, coreVars, srvVars, mgrLog, cx, cxLog, queueVars, kvVars>>

\* server.handleRequest(request), to the settling of its promise.
RpcHandleRequest(id, method) ==
  /\ Len(rpcLog) < MaxRpcCalls
  /\ LET request == [id |-> id, method |-> method]
         r == handleRequest(handlers, request)
     IN rpcLog' = Append(rpcLog, [request |-> request, handler |-> handlers[method],
                                  invoked |-> r.invoked, outcome |-> r.outcome])
  /\ UNCHANGED <<handlers, coreVars, srvVars, mgrLog, cx, cxLog, queueVars, kvVars>>

NextRpc ==
  \/ \E methodName \in RpcMethods, handler \in HandlerKinds :
       RpcSetRequestHandler(methodName, handler)
  \/ \E id \in RpcIds, method \in RpcMethods : RpcHandleRequest(id, method)

\* One JSONRPCServer under any sequence of registrations and requests.
SpecRpc == Init /\ [][NextRpc]_vars

\* ---------------------------------------------------------------- claims
IsSentinel(event) == event.kind = END_OF_STREAM_EVENT
NonSentinel(seq) == SelectSeq(seq, LAMBDA e : ~IsSentinel(e))
EndedOnSentinel == consumer.pc = "done" /\ IsSentinel(consumer.promise)
BroadcastSince(t) == SubSeq(bcast, tapReg[t] + 1, Len(bcast))

\* C1: a tapper yields every event broadcast after its tap() registered, once
\* each, and none broadcast before: when its iteration has ended, what it
\* yielded is exactly what was broadcast since it registered.
C1_TapperYieldsEveryBroadcast ==
  \A t \in Tappers : tap[t].pc = "done" => tapOut[t] = BroadcastSince(t)

\* C2: a late subscriber (one that subscribed after events were already
\* broadcast) of a stream that ran to its sentinel has received, in order,
\* every event since its subscription, the last one before the sentinel
\* included, however slowly it pulled.
C2_LateSubscriberLosesNothing ==
  \A t \in Tappers :
    (tapReg[t] > 0 /\ tap[t].pc = "done" /\ EndedOnSentinel /\ tapReg[t] < Len(bcast))
      => /\ Len(tapOut[t]) = Len(bcast) - tapReg[t]
         /\ \A i \in 1..Len(tapOut[t]) : tapOut[t][i] = bcast[tapReg[t] + i]
         /\ tapOut[t][Len(tapOut[t])] = bcast[Len(bcast)]

\* C3: once the stream has nothing left to enqueue and the primary consumer
\* has pulled consume() to its end at the sentinel, it has been yielded every
\* non-sentinel event the stream enqueued, once each and in enqueue order.
C3_PrimaryYieldsEveryEvent ==
  (EndedOnSentinel /\ jobs = <<>>) => primaryOut = NonSentinel(stream.log)

\* C4: no event yielded by consume() or by a tap(), the events the handlers
\* forward as frames, is an end-of-stream event.
C4_NoSentinelFrame ==
  /\ \A i \in 1..Len(primaryOut) : ~IsSentinel(primaryOut[i])
  /\ \A t \in Tappers : \A i \in 1..Len(tapOut[t]) : ~IsSentinel(tapOut[t][i])

C4_Witness ==
  /\ EndedOnSentinel
  /\ Len(primaryOut) > 0
  /\ \E t \in Tappers : Len(tapOut[t]) > 0

\* ---- the producer (SpecStream)
Log == stream.log
FinalUpdates == {i \in 1..Len(Log) : Log[i].kind = "status-update" /\ Log[i].final}
Sentinels == {i \in 1..Len(Log) : IsSentinel(Log[i])}

\* C5: among the events a Task Stream enqueues there is exactly one
\* status-update with final = true (at most one at any time, one once the
\* stream is closed and its calls are over), and no status-update or
\* artifact-update is enqueued after it.
C5_ExactlyOneFinalUpdate ==
  /\ Cardinality(FinalUpdates) <= 1
  /\ \A i \in FinalUpdates : \A j \in (i + 1)..Len(Log) : IsSentinel(Log[j])
  /\ (stream.closed /\ jobs = <<>>) => Cardinality(FinalUpdates) = 1

\* C6: a status-update the stream enqueues has final = true exactly when its
\* state is completed, failed, canceled or rejected.
C6_FinalIffTerminal ==
  \A i \in 1..Len(Log) :
    Log[i].kind = "status-update"
      => (Log[i].final <=> Log[i].state \in {"completed", "failed", "canceled", "rejected"})

C6_Witness ==
  /\ \E i \in 1..Len(Log) : Log[i].kind = "status-update" /\ Log[i].final
  /\ \E i \in 1..Len(Log) :
       Log[i].kind = "status-update" /\ Log[i].state = "input-required" /\ ~Log[i].final
  /\ \E i \in 1..Len(Log) :
       Log[i].kind = "status-update" /\ Log[i].state = "working" /\ ~Log[i].final

\* C7: the events are enqueued in the order of the producer calls: every event
\* of call i before any event of call i+1.
C7_EventsInCallOrder ==
  \A i, j \in 1..Len(Log) : i < j => Log[i].call <= Log[j].call

\* C8: a writeArtifact call that succeeded (default sendTaskStatusUpdate) has
\* enqueued exactly one artifact-update, a status-update (working) right
\* before it exactly when the task was not working at the call, and leaves
\* the task working.
ArtifactsOf(k) == {i \in 1..Len(Log) : Log[i].kind = "artifact-update" /\ Log[i].call = k}
StatusesOf(k) == {i \in 1..Len(Log) : Log[i].kind = "status-update" /\ Log[i].call = k}
C8_WriteArtifactEvents ==
  \A k \in 1..Len(calls) :
    (calls[k].op = "writeArtifact" /\ calls[k].sendStatus /\ calls[k].outcome = "returned")
      => /\ Cardinality(ArtifactsOf(k)) = 1
         /\ Cardinality(StatusesOf(k)) = IF calls[k].before # "working" THEN 1 ELSE 0
         /\ \A i \in StatusesOf(k) : Log[i].state = "working" /\ (i + 1) \in ArtifactsOf(k)
         /\ calls[k].after = "working"

\* C9: after a producer call that moved the task to a Terminal or Pending
\* state every later call fails with "already terminated", enqueues nothing
\* and leaves the task as it was; the stream enqueues one sentinel at most,
\* and nothing after it.
C9_ClosedAfterClosingState ==
  /\ \A i, j \in 1..Len(calls) :
       (i < j /\ calls[i].outcome # "threw"
              /\ calls[i].moved \in FinalStates \cup PendingStates)
         => /\ calls[j].outcome = "threw"
            /\ calls[j].error = "Task stream already terminated."
            /\ calls[j].logAfter = calls[j].logBefore
            /\ calls[j].taskAfter = calls[j].taskBefore
  /\ Cardinality(Sentinels) <= 1
  /\ \A i \in Sentinels : i = Len(Log)

\* ---- the server (SpecSrv)
OpenStreams(id) ==
  {r \in Reqs : streams[r] # Undefined /\ streams[r].task.id = id /\ ~streams[r].closed}

\* C10: whatever the interleaving of message/send, message/stream and
\* tasks/resubscribe requests, at most one Task Stream is open for a task id
\* and the manager holds at most one consumer for it, a consumer of that stream.
C10_OneStreamPerTask ==
  \A id \in TaskIds :
    /\ Cardinality(OpenStreams(id)) <= 1
    /\ \A r \in OpenStreams(id) : consumers[id] \in {NoConsumer, r}

\* ---- the execution context (SpecCtx)
\* C11: a second context.stream(...) on the same Execution Context fails: no
\* context ever creates a second Task Stream (with a second queue).
C11_SecondStreamCallFails ==
  \A r \in Reqs : reqs[r].nstreams <= 1

\* ---- the manager (SpecMgr)
\* C12: createConsumer throws when a consumer is registered for the task id
\* and then leaves the manager's mapping as it was; otherwise it registers
\* the new consumer under that id, and under no other.
C12_CreateConsumerOnce ==
  \A i \in 1..Len(mgrLog) :
    LET e == mgrLog[i]
    IN e.op = "createConsumer"
         => IF e.before[e.taskId] # NoConsumer
            THEN e.threw /\ e.after = e.before
            ELSE /\ ~e.threw
                 /\ e.after[e.taskId] = e.owner
                 /\ \A id \in TaskIds \ {e.taskId} : e.after[id] = e.before[id]

C12_Witness ==
  /\ \E i \in 1..Len(mgrLog) : mgrLog[i].op = "createConsumer" /\ mgrLog[i].threw
  /\ \E i \in 1..Len(mgrLog) : mgrLog[i].op = "createConsumer" /\ ~mgrLog[i].threw

\* ---- the server, continued (SpecSrv)
\* C13: a consumer whose consume() loop has exited is no longer registered:
\* getConsumer of its task id returns no consumer.
C13_ConsumerUnregisters ==
  \A id \in TaskIds :
    getConsumer(consumers, id) # NoConsumer => cons[getConsumer(consumers, id)].pc # "done"

\* Nothing that runs by itself is left to run for the stream of request r:
\* no suspended producer call, no resolved dequeue the consumer waits for.
Settled(r) ==
  /\ sjobs[r] = <<>>
  /\ ~(cons[r].pc = "awaiting" /\ cons[r].promise # Pending)

\* C14: the consumer message/send creates for a Stream result runs in the
\* background: once the stream is closed and everything that runs by itself
\* has run, the queue is drained and the consumer is finished, though nobody
\* taps and nobody iterates a response.
C14_SendConsumerRuns ==
  \A r \in Reqs :
    (/\ reqs[r].method = "message/send" /\ reqs[r].pc = "done"
     /\ reqs[r].result.kind = "stream"
     /\ getConsumer(consumers, streams[r].task.id) = r
     /\ streams[r].closed /\ Settled(r))
      => cons[r].finished /\ streams[r].q.items = <<>>

ErrorFrames(r) == {i \in 1..Len(reqs[r].frames) : reqs[r].frames[i].kind = "error"}

\* C15: a tasks/resubscribe that arrives while the consumer of a task started
\* by message/stream is active is not answered with an error.
C15_ResubscribeWhileStreaming ==
  \A r \in Reqs :
    (/\ reqs[r].method = "tasks/resubscribe"
     /\ reqs[r].consumerAt = "active"
     /\ \E u \in Reqs : /\ reqs[u].method = "message/stream" /\ reqs[u].taskId = NoTaskId
                         /\ streams[u] # Undefined /\ streams[u].task.id = reqs[r].taskId
                         /\ getConsumer(consumers, reqs[r].taskId) = u)
      => ErrorFrames(r) = {}

\* C16: a tasks/resubscribe for a task id nobody knows (not stored, no
\* consumer), or whose stream had finished when the request arrived, is
\* answered with one TaskNotFound error frame and nothing else.
C16_ResubscribeUnknownOrFinished ==
  \A r \in Reqs :
    (/\ reqs[r].method = "tasks/resubscribe" /\ reqs[r].pc = "done"
     /\ \/ reqs[r].consumerAt = "finished"
        \/ reqs[r].consumerAt = "none" /\ reqs[r].task = Undefined)
      => /\ Len(reqs[r].frames) = 1
         /\ reqs[r].frames[1].kind = "error"
         /\ reqs[r].frames[1].error = "TaskNotFound"

\* C17: a Task result is in the Task Store before its response is returned: a
\* request that arrives after the response and names the task's id gets a
\* Task with that id as its currentTask, the one returned or one a request
\* stored under the same id since.
C17_TaskStoredBeforeResponse ==
  [][\A r, u \in Reqs :
       (/\ reqs[r].pc = "done" /\ reqs[r].result.kind = "task"
        /\ reqs[u].pc = "none" /\ reqs'[u].pc = "arrived"
        /\ reqs'[u].method \in {"message/send", "message/stream"}
        /\ reqs'[u].taskId = reqs[r].result.id)
         => /\ reqs'[u].task # Undefined
            /\ reqs'[u].task.id = reqs[r].result.id
            /\ \E w \in Reqs : /\ reqs[w].pc \in {"stored", "done"}
                                /\ reqs[w].result = reqs'[u].task]_vars

C17_Witness ==
  \E r, u \in Reqs :
    /\ r < u
    /\ reqs[r].pc = "done" /\ reqs[r].result.kind = "task"
    /\ reqs[u].pc = "executed" /\ reqs[u].method \in {"message/send", "message/stream"}
    /\ reqs[u].taskId = reqs[r].result.id
    /\ reqs[u].task = reqs[r].result

\* C18: once message/send has answered a Stream result, the Task Store holds
\* the task under its id.
C18_SendStreamPersisted ==
  \A r \in Reqs :
    (reqs[r].method = "message/send" /\ reqs[r].pc = "done" /\ reqs[r].result.kind = "stream")
      => /\ get(taskStore, reqs[r].result.currentTask.id) # Undefined
         /\ get(taskStore, reqs[r].result.currentTask.id).id = reqs[r].result.currentTask.id

\* C19: when a Task Stream has put its task into a Terminal or Pending state
\* and all that follows by itself has happened (the producer calls are over,
\* the consumer has read the sentinel, the handler has ended), the Task Store
\* holds the task in that state.
C19_StreamedTaskPersisted ==
  \A r \in Reqs :
    (/\ streams[r] # Undefined /\ streams[r].closed /\ Settled(r)
     /\ reqs[r].method = "message/stream" /\ reqs[r].pc = "done"
     /\ cons[r].finished
     /\ streams[r].task.status.state \in FinalStates \cup PendingStates)
      => /\ get(taskStore, streams[r].task.id) # Undefined
         /\ get(taskStore, streams[r].task.id).status.state = streams[r].task.status.state

\* C20: a tasks/get request is answered with the stored Task when the Task
\* Store holds its id, and with TaskNotFound when it does not.
C20_TasksGet ==
  [][\A r \in Reqs :
       (reqs[r].pc # "done" /\ reqs'[r].pc = "done" /\ reqs'[r].method = "tasks/get")
         => /\ Len(reqs'[r].frames) = 1
            /\ IF get(taskStore, reqs'[r].taskId) # Undefined
               THEN reqs'[r].frames[1] = get(taskStore, reqs'[r].taskId)
               ELSE /\ reqs'[r].frames[1].kind = "error"
                    /\ reqs'[r].frames[1].error = "TaskNotFound"]_vars

MessageMethods == {"message/send", "message/stream"}

\* The request names a task in message.taskId and the store held no entry
\* for it when the handler asked.
NamesMissingTask(q) ==
  q.method \in MessageMethods /\ q.taskId # NoTaskId /\ q.task = Undefined

RECURSIVE PresentTasks(_, _)
PresentTasks(store, ids) ==
  IF ids = <<>> THEN <<>>
  ELSE (IF store[Head(ids)] # Undefined THEN <<store[Head(ids)]>> ELSE <<>>)
       \o PresentTasks(store, Tail(ids))

\* C22: when the handler reads the reference tasks, the context's
\* referenceTasks becomes the stored tasks of the ids that the Task Store
\* holds, in the order of referenceTaskIds, the missing ids left out; it does
\* not change afterwards; and a request whose own task lookup succeeded (or
\* that named no task) reaches the executor and gets no error, whatever ids
\* are missing.
C22_ReferenceTasks ==
  /\ [][\A r \in Reqs :
         /\ (~reqs[r].resolved /\ reqs'[r].resolved /\ reqs'[r].referenceTaskIds # Undefined)
              => reqs'[r].referenceTasks =
                   [kind |-> "tasks",
                    list |-> PresentTasks(taskStore, reqs'[r].referenceTaskIds.list)]
         /\ (reqs[r].resolved /\ reqs[r].pc # "none")
              => reqs'[r].referenceTasks = reqs[r].referenceTasks]_vars
  /\ [](\A r \in Reqs :
         (/\ reqs[r].method \in MessageMethods
          /\ reqs[r].pc \in {"executed", "stored", "done"}
          /\ ~NamesMissingTask(reqs[r]))
           => /\ reqs[r].invoked
              /\ reqs[r].result.kind # "error"
              /\ reqs[r].resolved)

\* The executor was called with two reference ids of which the store held
\* only the second.
C22_Witness ==
  \E r \in Reqs :
    /\ reqs[r].invoked
    /\ reqs[r].referenceTaskIds # Undefined
    /\ Len(reqs[r].referenceTaskIds.list) = 2
    /\ Len(reqs[r].referenceTasks.list) = 1
    /\ reqs[r].referenceTasks.list[1].id = reqs[r].referenceTaskIds.list[2]
    /\ reqs[r].referenceTaskIds.list[1] # reqs[r].referenceTaskIds.list[2]

\* C23: the frames of a message/stream response for a Stream result begin
\* with the task context.stream returned, and every later frame is a
\* status-update or artifact-update of that task; no event is framed ahead of
\* the task, whatever the callback has enqueued by then.
C23_InitialTaskFirst ==
  \A r \in Reqs :
    (reqs[r].method = "message/stream" /\ reqs[r].result.kind = "stream")
      => \A i \in 1..Len(reqs[r].frames) :
           IF i = 1
           THEN reqs[r].frames[i] = reqs[r].result.currentTask
           ELSE /\ reqs[r].frames[i].kind \in {"status-update", "artifact-update"}
                /\ reqs[r].frames[i].taskId = reqs[r].result.currentTask.id

\* A response whose callback had enqueued an event before the initial frame
\* was sent, and that carries the task and then the event.
C23_Witness ==
  \E r \in Reqs :
    /\ reqs[r].method = "message/stream" /\ reqs[r].result.kind = "stream"
    /\ Len(reqs[r].frames) >= 2
    /\ reqs[r].frames[1].kind = "task"
    /\ reqs[r].frames[2].kind = "status-update"
    /\ reqs[r].frames[2].call = 1

\* C24: once the abort signal has tripped, consume() yields no further event,
\* and it does not stay suspended in its await of dequeue() when no producer
\* call is left to enqueue anything: it has exited, and no tapper still
\* waits for an event.
C24_AbortStopsConsumer ==
  /\ [][aborted => primaryOut' = primaryOut]_vars
  /\ []((aborted /\ jobs = <<>> /\ consumer.pc \notin {"idle", "yielded"})
          => /\ consumer.pc = "done"
             /\ \A t \in Tappers : ~(tap[t].pc = "awaiting" /\ tap[t].promise = Pending))

\* The task a Task or Stream result carries: the context's current task when
\* execute() returned.
ProducesTask(q) == q.result.kind \in {"task", "stream"}
ResultTask(q) == IF q.result.kind = "stream" THEN q.result.currentTask ELSE q.result

\* C25: a task in a Terminal state does not change state again: no request
\* resumed with such a task leaves its context with the task in another
\* state, and no step changes the state of such a task in the Task Store.
C25_TerminalAbsorbing ==
  /\ [](\A r \in Reqs :
         (/\ reqs[r].task # Undefined
          /\ isFinalTaskState(reqs[r].task.status.state)
          /\ ProducesTask(reqs[r]))
           => ResultTask(reqs[r]).status.state = reqs[r].task.status.state)
  /\ [][\A id \in TaskIds :
         (taskStore[id] # Undefined /\ isFinalTaskState(taskStore[id].status.state))
           => /\ taskStore'[id] # Undefined
              /\ taskStore'[id].status.state = taskStore[id].status.state]_vars

\* C26: a task in a Pending state changes state only in the context of a
\* request whose message.taskId names it, and only to working or to a
\* Terminal state; the same holds for its entry in the Task Store.
C26_PendingLeavesByRequest ==
  /\ [](\A r \in Reqs :
         (/\ reqs[r].task # Undefined
          /\ isPendingTaskState(reqs[r].task.status.state)
          /\ ProducesTask(reqs[r]))
           => /\ reqs[r].taskId = reqs[r].task.id
              /\ ResultTask(reqs[r]).status.state
                   \in {reqs[r].task.status.state, "working"} \cup FinalStates)
  /\ [][\A id \in TaskIds :
         (/\ taskStore[id] # Undefined
          /\ isPendingTaskState(taskStore[id].status.state)
          /\ taskStore'[id] # taskStore[id])
           => /\ taskStore'[id] # Undefined
              /\ taskStore'[id].status.state
                   \in {taskStore[id].status.state, "working"} \cup FinalStates
              /\ \E r \in Reqs : /\ reqs[r].taskId = id
                                  /\ reqs[r].method \in MessageMethods
                                  /\ reqs'[r] # reqs[r]]_vars

C28_MessageOfContext ==
  \A r \in Reqs :
    reqs[r].result.kind = "message"
      => /\ reqs[r].result.contextId = contextIdFor(r)
         /\ reqs[r].result.taskId =
              (IF reqs[r].task # Undefined THEN reqs[r].task.id ELSE NoTaskId)

\* C29: every setOrUpdateTask call leaves the task with the artifacts it had
\* before followed by the artifacts of the call, in their order and with
\* their repetitions; after two calls with lists A and B on a context without
\* a task the artifacts are A \o B.
C29_ArtifactsAppend ==
  /\ \A i \in 1..Len(cxLog) :
       LET e == cxLog[i]
       IN /\ e.before = (IF i = 1 THEN Undefined ELSE cxLog[i - 1].after)
          /\ e.after.artifacts =
               (IF e.before = Undefined THEN <<>> ELSE e.before.artifacts) \o e.params.artifacts
  /\ Len(cxLog) >= 2
       => cxLog[2].after.artifacts = cxLog[1].params.artifacts \o cxLog[2].params.artifacts
  /\ Len(cxLog) >= 1 => cx.task = cxLog[Len(cxLog)].after

\* Two calls whose lists share their artifact ids, in different orders.
C29_Witness ==
  /\ Len(cxLog) = 2
  /\ cxLog[1].params.artifacts = <<"a1", "a2">>
  /\ cxLog[2].params.artifacts = <<"a2", "a1">>
  /\ cx.task.artifacts = <<"a1", "a2", "a2", "a1">>

\* C30: after every setOrUpdateTask call the status of the task is the state
\* of the call and the message made from the params of the call, and it has
\* no message when the params carry none.
C30_StatusReplacedWhole ==
  \A i \in 1..Len(cxLog) :
    LET e == cxLog[i]
    IN /\ e.after.status.state = e.state
       /\ e.after.status.message =
            (IF e.params.message = Undefined THEN Undefined
             ELSE _createMessage(cx.cxId, e.params.message, e.after.id, NoMessageId))

\* C34: on a queue that was never closed the k-th dequeue call is handed the
\* k-th enqueued item and no other call gets it, the items no call has taken
\* are the buffer, a dequeue suspends exactly when the buffer was empty at the
\* call, an enqueue resolves one pending dequeue if there is one and none
\* otherwise, and buffered items and pending dequeues never coexist.
C34_OpenQueueFifo ==
  Len(qLog.close) = 0 =>
    LET enq == qLog.enq
        deq == qLog.deq
        handed == IF Len(enq) < Len(deq) THEN Len(enq) ELSE Len(deq)
    IN /\ \A i \in 1..Len(deq) :
            /\ deq[i].value = (IF i <= Len(enq) THEN enq[i].item ELSE Pending)
            /\ deq[i].suspended <=> deq[i].empty
       /\ queue.items = [i \in 1..(Len(enq) - handed) |-> enq[handed + i].item]
       /\ queue.pending = [i \in 1..(Len(deq) - handed) |-> handed + i]
       /\ \A j \in 1..Len(enq) : enq[j].woke = (IF enq[j].waiters > 0 THEN 1 ELSE 0)
       /\ ~(Len(queue.items) > 0 /\ Len(queue.pending) > 0)

\* Two dequeues suspended, then woken one per enqueue, and a third enqueue
\* buffered and taken by a dequeue that does not suspend.
C34_Witness ==
  /\ Len(qLog.close) = 0
  /\ Len(qLog.enq) = 3 /\ Len(qLog.deq) = 3
  /\ qLog.deq[1].suspended /\ qLog.deq[2].suspended /\ ~qLog.deq[3].suspended
  /\ qLog.deq[2].value = QItem(2) /\ qLog.deq[3].value = QItem(3)

\* C35: close() resolves every pending dequeue with undefined; on a closed
\* queue every dequeue returns undefined at once, every enqueue is dropped
\* (the buffer stays empty, size() is 0), and a second close() changes nothing.
C35_ClosedQueue ==
  /\ \A c \in 1..Len(qLog.close) :
        /\ qLog.close[c].woke = Len(qLog.close[c].before.pending)
        /\ qLog.close[c].before.isClosed => qLog.close[c].after = qLog.close[c].before
  /\ queue.isClosed =>
        /\ \A i \in 1..Len(qLog.deq) : qLog.deq[i].value # Pending
        /\ size(queue) = 0
  /\ \A i \in 1..Len(qLog.deq) :
        qLog.deq[i].closed => qLog.deq[i].value = Undefined /\ ~qLog.deq[i].suspended
  /\ \A j \in 1..Len(qLog.enq) : qLog.enq[j].closed => qLog.enq[j].size = 0

\* What was set under a key has expired at time t when it was set with a
\* positive ttl and more than ttl seconds have passed since.
Elapsed(g, t) == g # Undefined /\ g.ttl > 0 /\ t - g.at > g.ttl * MsPerSecond
Lasting(g) == g # Undefined /\ ~(g.ttl > 0)

\* C36: get and has on a key whose ttl has elapsed answer absent and remove
\* the entry; keys, values and entries return no expired entry and leave none
\* in the store; what was last set under a key without a positive ttl is still
\* there at any later time, with the value of that last set.
C36_TtlStore ==
  kvLog.last # Undefined =>
    LET c == kvLog.last
        g == IF c.key \in Keys THEN c.sets[c.key] ELSE Undefined
    IN /\ (c.op = "get" /\ Elapsed(g, c.at)) => c.value = Undefined /\ kv[c.key] = Undefined
       /\ (c.op = "has" /\ Elapsed(g, c.at)) => ~c.value.is /\ kv[c.key] = Undefined
       /\ c.op \in {"keys", "values", "entries"} =>
            \A k \in Keys : Elapsed(c.sets[k], c.at) => k \notin c.value.keys /\ kv[k] = Undefined
       /\ (c.op = "get" /\ Lasting(g)) => c.value = g.value
       /\ (c.op = "has" /\ Lasting(g)) => c.value.is
       /\ c.op \in {"keys", "values", "entries"} =>
            \A k \in Keys : Lasting(c.sets[k]) => k \in c.value.keys
       /\ c.op = "values" =>
            \A k \in Keys : Lasting(c.sets[k]) => c.sets[k].value \in c.value.values
       /\ c.op = "entries" =>
            \A k \in Keys : Lasting(c.sets[k]) => <<k, c.sets[k].value>> \in c.value.entries

\* keys() at a time when k1, set with a ttl of one second over an entry without
\* ttl, has expired and k2, set without ttl over an entry with one, has not.
C36_Witness ==
  /\ kvLog.last # Undefined
  /\ kvLog.last.op = "keys"
  /\ Elapsed(kvLog.last.sets["k1"], kvLog.last.at)
  /\ Lasting(kvLog.last.sets["k2"])
  /\ kvLog.last.sets["k2"].at > TickMs
  /\ kvLog.last.value.keys = {"k2"}

\* C31: a request whose method has no handler settles to a single response
\* that carries the MethodNotFound error (-32601) and the id of the request;
\* no handler is called and no stream is returned.
C31_MethodNotFound ==
  \A i \in 1..Len(rpcLog) :
    rpcLog[i].handler = NoHandler =>
      /\ rpcLog[i].outcome.settled = "fulfilled"
      /\ rpcLog[i].outcome.response.id = rpcLog[i].request.id
      /\ rpcLog[i].outcome.response.error.code = MethodNotFoundError
      /\ DOMAIN rpcLog[i].outcome.response = {"jsonrpc", "id", "error"}
      /\ ~rpcLog[i].outcome.stream
      /\ ~rpcLog[i].invoked

\* A request with id 2 for a method without handler on a server that has a
\* handler for the other method.
C31_Witness ==
  \E i \in 1..Len(rpcLog) :
    /\ rpcLog[i].handler = NoHandler
    /\ rpcLog[i].request.id = 2
    /\ \E m \in RpcMethods : handlers[m] # NoHandler

\* C32: when the registered handler throws or its promise rejects,
\* handleRequest settles to a response that carries the InternalError error
\* (-32603) and the id of the request; its own promise does not reject.
C32_HandlerFailureIsInternalError ==
  \A i \in 1..Len(rpcLog) :
    rpcLog[i].handler \in {"throws", "rejects"} =>
      /\ rpcLog[i].outcome.settled = "fulfilled"
      /\ rpcLog[i].outcome.response.id = rpcLog[i].request.id
      /\ rpcLog[i].outcome.response.error.code = InternalError

\* The events a tapper holds or has yielded: its queue, a settled promise,
\* what its generator yielded.
Observed(t) ==
  {tapOut[t][i] : i \in 1..Len(tapOut[t])}
    \cup {tap[t].queue[i] : i \in 1..Len(tap[t].queue)}
    \cup (IF tap[t].promise \in {Undefined, Pending} THEN {} ELSE {tap[t].promise})
Yielded == {primaryOut[i] : i \in 1..Len(primaryOut)}

\* C39: consume() hands an event to its tappers only after it has yielded it
\* to the primary consumer: what was broadcast is always a prefix of what the
\* primary was yielded, the event of a broadcast was yielded before the step
\* that broadcasts it, and no tapper holds or has yielded an event the primary
\* was not yielded.
C39_PrimaryFirst ==
  /\ [](/\ Len(bcast) <= Len(primaryOut)
        /\ bcast = SubSeq(primaryOut, 1, Len(bcast))
        /\ \A t \in Tappers : Observed(t) \subseteq Yielded)
  /\ [][bcast' # bcast => bcast'[Len(bcast')] \in Yielded]_vars

\* Both tappers have yielded an event and a second event was broadcast.
C39_Witness ==
  /\ Len(bcast) >= 2
  /\ \A t \in Tappers : Len(tapOut[t]) >= 1

\* C37: once consume() has ended, for whatever reason, its tappers set is
\* empty and stays so, a tap() started afterwards ends at its first pull
\* without yielding, and every tap() started before it ends.
C37_TappersEnd ==
  /\ [](consumer.finished => tset = {})
  /\ [][\A t \in Tappers :
          (consumer.finished /\ tap[t].pc = "idle" /\ tap'[t].pc # "idle")
            => (tap'[t].pc = "done" /\ tapOut'[t] = tapOut[t])]_vars
  /\ \A t \in Tappers : (consumer.finished /\ tap[t].pc # "idle") ~> (tap[t].pc = "done")

\* consume() was left at its yield by the primary consumer while tapper 1 was
\* waiting for an event, and tapper 1 has ended; tapper 2 started afterwards
\* and has ended with nothing yielded.
C37_Witness ==
  /\ consumer.finished /\ consumer.pc = "done"
  /\ ~aborted /\ ~stream.q.isClosed /\ ~IsSentinel(consumer.promise)
  /\ Len(primaryOut) > Len(bcast)
  /\ tap[1].pc = "done" /\ tapReg[1] < Len(primaryOut)
  /\ tap[2].pc = "done" /\ tapOut[2] = <<>>

\* The events of a stream's log before its first sentinel.
UpToSentinel(log) ==
  LET first == CHOOSE i \in 1..Len(log) :
                 IsSentinel(log[i]) /\ \A j \in 1..(i - 1) : ~IsSentinel(log[j])
  IN SubSeq(log, 1, first - 1)

\* C38: a message/stream request that names a stored task whose earlier
\* stream had ended when it arrived, and whose agent answers with a new
\* stream, is sent the initial Task and then every event of the new stream up
\* to its sentinel: when the handler has ended and the new stream has run to
\* its sentinel, the frames are exactly these.
C38_ResumedStreamDelivers ==
  \A r \in Reqs :
    LET q == reqs[r]
    IN (/\ q.method = "message/stream"
        /\ q.taskId # NoTaskId /\ q.task # Undefined
        /\ q.consumerAt = "finished"
        /\ q.result.kind = "stream"
        /\ q.pc = "done"
        /\ sjobs[r] = <<>>
        /\ \E i \in 1..Len(streams[r].log) : IsSentinel(streams[r].log[i]))
       => q.frames = <<q.result.currentTask>> \o UpToSentinel(streams[r].log)

\* C33: a request of a single-response method is answered once: its handler
\* ends with one answer, and what handleRequest returns is a response without
\* stream that carries the id of the request and either result or error, never
\* both and never neither, whatever the agent executor returned or threw and
\* whether the store held the task or not.
C33_OneResponse ==
  \A r \in Reqs :
    LET q == reqs[r]
    IN q.method \in UnaryMethods =>
         /\ q.pc = "done" => Len(q.frames) = 1
         /\ q.pc # "done" => q.frames = <<>> /\ q.response = Undefined
         /\ q.response # Undefined =>
              /\ q.response.stream = Undefined
              /\ q.response.response.id = q.id
              /\ \/ DOMAIN q.response.response = {"jsonrpc", "id", "result"}
                 \/ DOMAIN q.response.response = {"jsonrpc", "id", "error"}

\* message/send answered with a Task, tasks/cancel of that task whose
\* executor throws, message/send whose agent returns a stream, all returned.
C33_Witness ==
  /\ reqs[1].method = "message/send" /\ reqs[1].result.kind = "task"
  /\ reqs[1].id = 2 /\ reqs[1].response # Undefined
  /\ reqs[2].method = "tasks/cancel" /\ reqs[2].result.kind = "thrown"
  /\ reqs[2].id = 1 /\ reqs[2].response # Undefined
  /\ reqs[3].method = "message/send" /\ reqs[3].result.kind = "stream"
  /\ reqs[3].id = 2 /\ reqs[3].response # Undefined

\* C40: tasks/cancel answers TaskNotFound and does not call the executor when
\* the store holds no task under the id; otherwise it calls the executor and
\* answers with what cancel(task) returned, a Task as result and a JSON-RPC
\* error as error; no step of its handler changes the store, the manager, a
\* stream or a consumer.
C40_Cancel ==
  /\ [](\A r \in Reqs :
         LET q == reqs[r]
         IN q.method = "tasks/cancel" =>
              /\ q.invoked => q.task # Undefined
              /\ (q.pc = "done" /\ q.task = Undefined) =>
                   ~q.invoked /\ q.frames = <<taskNotFoundError("not found")>>
              /\ (q.pc = "done" /\ q.task # Undefined) =>
                   q.invoked /\ (q.result.kind # "thrown" => q.frames = <<q.result>>)
              /\ (q.response # Undefined /\ q.result.kind = "task") =>
                   q.response.response = [jsonrpc |-> "2.0", id |-> q.id, result |-> q.result]
              /\ (q.response # Undefined /\ q.result.kind = "error") =>
                   q.response.response = [jsonrpc |-> "2.0", id |-> q.id, error |-> q.result])
  /\ [][\A r \in Reqs :
          (reqs'[r].method = "tasks/cancel" /\ reqs'[r] # reqs[r])
            => UNCHANGED <<taskStore, consumers, streams, sjobs, cons, taps, tsets>>]_vars

\* The task was stored completed, a later message/send made a stream and a
\* consumer for it, and a tasks/cancel for it returned the task canceled: the
\* store still holds it completed.
C40_Witness ==
  /\ reqs[3].method = "tasks/cancel" /\ reqs[3].response # Undefined
  /\ reqs[3].result.kind = "task" /\ reqs[3].result.status.state = "canceled"
  /\ taskStore[reqs[3].taskId].status.state = "completed"
  /\ consumers[reqs[3].taskId] # NoConsumer
  /\ streams[consumers[reqs[3].taskId]] # Undefined

====
